---- MODULE Spec2Model ----
(***************************************************************************)
(* image-inspector: the image acquisition and extraction pipeline of      *)
(* pkg/inspector/image-inspector.go (Inspect, pullImage,                  *)
(* decodeDockerResponse, createAndExtractImage, handleTarStream,          *)
(* processTarStream) as a state machine of its goroutines.                *)
(***************************************************************************)
EXTENDS Integers, Sequences, FiniteSets, TLC

\* ------------------------------------------------------------------ bounds
MaxCfgFiles == 1   \* docker-config files named on the command line
MaxMsgs == 2       \* messages the runtime writes into one pull stream
MaxEntries == 3    \* tar entries the copy-out stream carries
MaxDownloads == 3  \* messages of the stream whose progress is followed
MaxAuthFiles == 2  \* docker-config files one call of getAuthConfigs is given

\* ------------------------------------------------------- program constants
OWNER_PERM_RW == 384             \* 0600
DOCKER_TAR_PREFIX == "rootfs"    \* "rootfs/": the component before the slash

\* ------------------------------------------------------------- pull inputs
\* The docker-config files that may be named, and the auths each one holds
\* (an empty set: missing, unparsable or without auths).
CfgPaths == {"c1", "c2", "cbad"}

CfgFileAuths(path) ==
    CASE path = "c1" -> {"r1"}
      [] path = "c2" -> {"r2"}
      [] path = "c12" -> {"r1", "r2"}
      [] OTHER -> {}

RECURSIVE SeqsUpTo(_, _)
SeqsUpTo(S, n) ==
    IF n = 0 THEN {<<>>}
    ELSE LET shorter == SeqsUpTo(S, n - 1)
         IN shorter \cup {Append(s, x) : s \in shorter, x \in S}

Range(s) == {s[i] : i \in 1..Len(s)}

\* The kinds of message a pull stream carries: a progress/status object, an
\* object with a non-empty Error field, and bytes that are not JSON.
MsgKinds == {"status", "error", "malformed"}

AnonymousKey == <<"", "Default Empty Authentication">>
UserKey == <<"", "">>

\* An appendDockerCfgConfigs that keys the entries by the auth's name alone.
AppendByNameOnly(path) == {<<"", name>> : name \in CfgFileAuths(path)}

\* appendDockerCfgConfigs: the keys one docker-config file adds.
AppendDockerCfgConfigs(path) == {<<path, name>> : name \in CfgFileAuths(path)}

\* The credentials stored under a key: those of the file's auth, and the
\* empty ones of the default entry.
FileCredentials(key) == [username |-> key[2], password |-> "stored"]
NoCredentials == [username |-> "", password |-> ""]

\* The map getAuthConfigs builds before it looks at the username.
DefaultAndFileEntries(o) ==
    LET fromFiles == UNION {AppendDockerCfgConfigs(o.dockerCfg[i]) : i \in 1..Len(o.dockerCfg)}
    IN [k \in {AnonymousKey} \cup fromFiles |->
          IF k = AnonymousKey THEN NoCredentials ELSE FileCredentials(k)]

\* A getAuthConfigs that adds the username's entry to the others.
GetAuthConfigsMerged(o) ==
    LET base == DefaultAndFileEntries(o)
        user == (UserKey :> [username |-> o.username, password |-> o.password])
    IN IF o.username # ""
       THEN IF o.passwordReadable
            THEN [err |-> FALSE, configs |-> DOMAIN (user @@ base), entries |-> user @@ base]
            ELSE [err |-> TRUE, configs |-> {}, entries |-> <<>>]
       ELSE [err |-> FALSE, configs |-> DOMAIN base, entries |-> base]

\* getAuthConfigs: the credential map (entries, and its key set configs) or
\* an error.
GetAuthConfigs(o) ==
    LET base == DefaultAndFileEntries(o)
        user == (UserKey :> [username |-> o.username, password |-> o.password])
    IN IF o.username # ""
       THEN IF o.passwordReadable
            THEN [err |-> FALSE, configs |-> {UserKey}, entries |-> user]
            ELSE [err |-> TRUE, configs |-> {}, entries |-> <<>>]
       ELSE [err |-> FALSE, configs |-> DOMAIN base, entries |-> base]

\* Options that passed Validate: docker-config files and a username are
\* never both given.
PullOpts ==
    {[dockerCfg |-> l, username |-> "", passwordReadable |-> TRUE, password |-> ""] :
        l \in SeqsUpTo(CfgPaths, MaxCfgFiles)}
    \cup {[dockerCfg |-> <<>>, username |-> "u", passwordReadable |-> b, password |-> "p1"] :
             b \in BOOLEAN}


\* ------------------------------------------------------------------- paths
\* A path or an entry name is the sequence of its slash-separated components:
\* "rootfs/a" is <<"rootfs", "a">>, "rootfs/" is <<"rootfs", "">>, "/out" is
\* <<"", "out">>.

\* strings.TrimPrefix(name, DOCKER_TAR_PREFIX): one leading "rootfs/" goes.
TrimPrefix(name) ==
    IF Len(name) >= 2 /\ name[1] = DOCKER_TAR_PREFIX THEN Tail(name) ELSE name

RECURSIVE CleanAcc(_, _)
CleanAcc(acc, comps) ==
    IF comps = <<>> THEN acc
    ELSE LET c == Head(comps)
         IN IF c = "" \/ c = "." THEN CleanAcc(acc, Tail(comps))
            ELSE IF c = ".."
                 THEN CleanAcc(IF acc = <<>> THEN acc ELSE SubSeq(acc, 1, Len(acc) - 1), Tail(comps))
                 ELSE CleanAcc(Append(acc, c), Tail(comps))

\* path.Join(destination, rest) for an absolute destination: join, then Clean.
PathJoin(destination, rest) == CleanAcc(<<>>, destination \o rest)

\* ---------------------------------------------------------- the filesystem
\* F.nodes maps the absolute path of every directory entry to its node;
\* F.inodes holds mode and content of the regular files (hard links share one).
DirNode(mode) == [kind |-> "dir", mode |-> mode, ino |-> 0, target |-> <<>>]
FileNode(ino) == [kind |-> "file", mode |-> 0, ino |-> ino, target |-> <<>>]
LinkNode(target) == [kind |-> "symlink", mode |-> 0, ino |-> 0, target |-> target]

SymlinkFuel == MaxEntries + 1

Parent(p) == IF p = <<>> THEN p ELSE SubSeq(p, 1, Len(p) - 1)

\* Kernel path resolution from the directory cur: symbolic links in the middle
\* of the path are followed, the last component only when followLast.  The
\* result names the place the path denotes, which may not exist yet.
RECURSIVE Walk(_, _, _, _, _)
Walk(nodes, cur, comps, followLast, fuel) ==
    IF comps = <<>> THEN [err |-> "", path |-> cur]
    ELSE LET c == Head(comps)
             rest == Tail(comps)
             p == Append(cur, c)
         IN IF c = "" \/ c = "." THEN Walk(nodes, cur, rest, followLast, fuel)
            ELSE IF c = ".." THEN Walk(nodes, Parent(cur), rest, followLast, fuel)
            ELSE IF p \notin DOMAIN nodes
                 THEN IF rest = <<>> THEN [err |-> "", path |-> p]
                      ELSE [err |-> "ENOENT", path |-> p]
            ELSE IF nodes[p].kind = "symlink" /\ (rest # <<>> \/ followLast)
                 THEN IF fuel = 0 THEN [err |-> "ELOOP", path |-> p]
                      ELSE LET t == nodes[p].target
                           IN Walk(nodes, IF t # <<>> /\ t[1] = "" THEN <<>> ELSE cur,
                                   t \o rest, followLast, fuel - 1)
            ELSE IF rest = <<>> THEN [err |-> "", path |-> p]
            ELSE IF nodes[p].kind = "dir" THEN Walk(nodes, p, rest, followLast, fuel)
            ELSE [err |-> "ENOTDIR", path |-> p]

Lookup(F, path, followLast) == Walk(F.nodes, <<>>, path, followLast, SymlinkFuel)

\* os.Mkdir
Mkdir(F, path, mode) ==
    LET w == Lookup(F, path, FALSE)
    IN IF w.err # "" THEN [err |-> w.err, F |-> F]
       ELSE IF w.path \in DOMAIN F.nodes THEN [err |-> "EEXIST", F |-> F]
       ELSE [err |-> "", F |-> [F EXCEPT !.nodes = (w.path :> DirNode(mode)) @@ @]]

\* os.Chmod: follows a symbolic link in the last component.
Chmod(F, path, mode) ==
    LET w == Lookup(F, path, TRUE)
    IN IF w.err # "" THEN [err |-> w.err, F |-> F]
       ELSE IF w.path \notin DOMAIN F.nodes THEN [err |-> "ENOENT", F |-> F]
       ELSE IF F.nodes[w.path].kind = "dir"
            THEN [err |-> "", F |-> [F EXCEPT !.nodes[w.path].mode = mode]]
            ELSE [err |-> "", F |-> [F EXCEPT !.inodes[F.nodes[w.path].ino].mode = mode]]

\* os.OpenFile(path, O_CREATE|O_TRUNC|O_WRONLY, mode): the inode it opened.
OpenFile(F, path, mode) ==
    LET w == Lookup(F, path, TRUE)
    IN IF w.err # "" THEN [err |-> w.err, F |-> F, ino |-> 0]
       ELSE IF w.path \in DOMAIN F.nodes
            THEN IF F.nodes[w.path].kind = "dir" THEN [err |-> "EISDIR", F |-> F, ino |-> 0]
                 ELSE [err |-> "",
                       F |-> [F EXCEPT !.inodes[F.nodes[w.path].ino].data = <<>>],
                       ino |-> F.nodes[w.path].ino]
            ELSE [err |-> "",
                  F |-> [nodes |-> (w.path :> FileNode(Len(F.inodes) + 1)) @@ F.nodes,
                         inodes |-> Append(F.inodes, [mode |-> mode, data |-> <<>>])],
                  ino |-> Len(F.inodes) + 1]

\* os.Symlink(target, path)
Symlink(F, target, path) ==
    LET w == Lookup(F, path, FALSE)
    IN IF w.err # "" THEN [err |-> w.err, F |-> F]
       ELSE IF w.path \in DOMAIN F.nodes THEN [err |-> "EEXIST", F |-> F]
       ELSE [err |-> "", F |-> [F EXCEPT !.nodes = (w.path :> LinkNode(target)) @@ @]]

\* os.Link(old, new): a symbolic link at old is linked itself, not followed.
Link(F, old, new) ==
    LET wo == Lookup(F, old, FALSE)
        wn == Lookup(F, new, FALSE)
    IN IF wo.err # "" THEN [err |-> wo.err, F |-> F]
       ELSE IF wo.path \notin DOMAIN F.nodes THEN [err |-> "ENOENT", F |-> F]
       ELSE IF F.nodes[wo.path].kind = "dir" THEN [err |-> "EPERM", F |-> F]
       ELSE IF wn.err # "" THEN [err |-> wn.err, F |-> F]
       ELSE IF wn.path \in DOMAIN F.nodes THEN [err |-> "EEXIST", F |-> F]
       ELSE [err |-> "", F |-> [F EXCEPT !.nodes = (wn.path :> F.nodes[wo.path]) @@ @]]

\* a | b on mode bits
RECURSIVE BitOr(_, _)
BitOr(a, b) ==
    IF a = 0 THEN b
    ELSE IF b = 0 THEN a
    ELSE (IF a % 2 = 1 \/ b % 2 = 1 THEN 1 ELSE 0) + 2 * BitOr(a \div 2, b \div 2)

\* --------------------------------------------------------- the tar stream
EntryNames == {<<"rootfs", "a">>, <<"rootfs", "b">>, <<"rootfs", "a", "b">>}
EntryTypes == {"dir", "reg", "symlink", "link", "fifo"}
EntryModes == {292}                                  \* 0444
SymTargets == {<<"x">>, <<"", "out">>}               \* "x" and "/out"
LinkNames == {<<"rootfs", "a">>, <<"rootfs", "b">>}
Payload == <<1, 2>>

\* The headers the copy-out stream may carry; fields a type does not use are
\* left at their zero value.
EntryPool ==
    {[name |-> n, typ |-> "dir", mode |-> m, linkname |-> <<>>, size |-> 0] :
        n \in EntryNames, m \in EntryModes}
    \cup {[name |-> n, typ |-> "reg", mode |-> m, linkname |-> <<>>, size |-> Len(Payload)] :
        n \in EntryNames, m \in EntryModes}
    \cup {[name |-> n, typ |-> "symlink", mode |-> 511, linkname |-> t, size |-> 0] :
        n \in EntryNames, t \in SymTargets}
    \cup {[name |-> n, typ |-> "link", mode |-> 0, linkname |-> l, size |-> 0] :
        n \in EntryNames, l \in LinkNames}
    \cup {[name |-> n, typ |-> "fifo", mode |-> 420, linkname |-> <<>>, size |-> 0] :
        n \in EntryNames}

NoHdr == [name |-> <<>>, typ |-> "none", mode |-> 0, linkname |-> <<>>, size |-> 0]

\* A mode taken from the header as it stands.
EntryModeOfHeader(h) == h.mode

\* dstpath and mode as processTarStream computes them for a header.
DstPath(destination, h) == PathJoin(destination, TrimPrefix(h.name))
EntryMode(h) == BitOr(h.mode, OWNER_PERM_RW)
LinkTarget(destination, h) == PathJoin(destination, TrimPrefix(h.linkname))

\* A directory case that does not tolerate an existing path.
ApplyDirStrict(F, destination, h) ==
    LET mk == Mkdir(F, DstPath(destination, h), EntryMode(h))
    IN IF mk.err = "" THEN [err |-> "", F |-> mk.F] ELSE [err |-> "ErrMkdir", F |-> F]

\* case tar.TypeDir: Mkdir, and on already-exists Chmod.
ApplyDir(F, destination, h) ==
    LET mk == Mkdir(F, DstPath(destination, h), EntryMode(h))
        ch == Chmod(F, DstPath(destination, h), EntryMode(h))
    IN IF mk.err = "" THEN [err |-> "", F |-> mk.F]
       ELSE IF mk.err # "EEXIST" THEN [err |-> "ErrMkdir", F |-> F]
       ELSE IF ch.err # "" THEN [err |-> "ErrChmod", F |-> F]
       ELSE [err |-> "", F |-> ch.F]

\* A symlink case that re-roots the link target like a hard link's.
ApplySymlinkRerooted(F, destination, h) ==
    LET r == Symlink(F, LinkTarget(destination, h), DstPath(destination, h))
    IN [err |-> IF r.err = "" THEN "" ELSE "ErrSymlink", F |-> r.F]

\* case tar.TypeSymlink
ApplySymlink(F, destination, h) ==
    LET r == Symlink(F, h.linkname, DstPath(destination, h))
    IN [err |-> IF r.err = "" THEN "" ELSE "ErrSymlink", F |-> r.F]

\* A hard-link case that passes over a link it cannot make.
ApplyLinkLenient(F, destination, h) ==
    [err |-> "", F |-> Link(F, LinkTarget(destination, h), DstPath(destination, h)).F]

\* case tar.TypeLink
ApplyLink(F, destination, h) ==
    LET r == Link(F, LinkTarget(destination, h), DstPath(destination, h))
    IN [err |-> IF r.err = "" THEN "" ELSE "ErrLink", F |-> r.F]

\* A default case that creates an empty node for the entry.
ApplyOtherMknod(F, destination, h) ==
    [err |-> "", F |-> OpenFile(F, DstPath(destination, h), EntryMode(h)).F]

\* default: the entry is skipped.
ApplyOther(F, destination, h) == [err |-> "", F |-> F]

\* The directory tree before Inspect runs: /, /out and /var/tmp.
InitialFS ==
    [nodes |-> (<<>> :> DirNode(493)) @@ (<<"out">> :> DirNode(493))
               @@ (<<"var">> :> DirNode(493)) @@ (<<"var", "tmp">> :> DirNode(511)),
     inodes |-> <<>>]

\* createOutputDir: the explicit paths a caller may give, and the temporary one.
DstPaths == {<<>>, <<"dst">>, <<"nodir", "dst">>}
TempDirName == <<"var", "tmp", "image-inspector-1">>

VARIABLES
    pc,            \* position of the goroutine that runs Inspect
    ret,           \* what Inspect returned ("none" while it runs)
    opts,          \* ImageInspectorOptions
    imagePresent,  \* the runtime already holds the image locally
    configs,       \* keys of imagePullAuths.Configs
    tried,         \* credential keys in the order the range loop visited them
    att,           \* one record per pull attempt: goroutines, pipe, channel
    pullRet,       \* what pullImage returned ("none" until it returns)
    rtCalls,       \* calls made on the docker client, in order
    panicked,      \* a goroutine panicked (send on a closed channel)
    fs,            \* the filesystem
    pipeX,         \* the extraction pipe: the write that is pending in it
    prod,          \* position of the goroutine that runs DownloadFromContainer
    prodResult,    \* what DownloadFromContainer returned
    nItems,        \* tar entries written into the pipe so far
    streamEnd,     \* what the stream carried after its entries
    hdr,           \* processTarStream: the header of the current entry
    openFiles,     \* inodes of the destination files that are open
    consErr,       \* what processTarStream returned ("none" while it runs)
    logged,        \* errors handleTarStream logged
    applied,       \* entries processTarStream went through without error
    lastCopy,      \* size and bytes written of the last regular file copied
    xRet,          \* the error createAndExtractImage returns ("none": not set)
    handed,        \* the directories Inspect handed to the scanner and the server
    replay,        \* processTarStream run on one archive for two destinations
    dl,            \* decodeDockerResponse: the Downloading messages of one stream
    call,          \* one call of a function: its input and its result
    srv,           \* the image server: its token and the request it handles
    ses            \* a clamd session: its fields, its goroutines, the connection

mainVars == <<pc, ret, opts, imagePresent>>
pullVars == <<configs, tried, att, pullRet>>
rtVars == <<rtCalls, panicked>>
tarVars == <<hdr, openFiles, consErr, logged, applied, lastCopy>>
prodVars == <<prod, prodResult, nItems, streamEnd>>
xVars == <<fs, pipeX, prodVars, tarVars, xRet>>
auxVars == <<handed, replay, dl, call, srv, ses>>
vars == <<mainVars, pullVars, rtVars, xVars, auxVars>>

NewAttempt ==
    [puller |-> "start", decoder |-> "idle", pipe |-> "none", decBuf |-> "none",
     nWritten |-> 0, bad |-> FALSE, result |-> "running", chan |-> <<>>, chanClosed |-> FALSE,
     readerClosed |-> FALSE]

\* An attempt that pulled the image and whose goroutines have all returned.
FinishedAttempt ==
    [puller |-> "done", decoder |-> "done", pipe |-> "none", decBuf |-> "none",
     nWritten |-> 0, bad |-> FALSE, result |-> "ok", chan |-> <<>>, chanClosed |-> TRUE,
     readerClosed |-> TRUE]

NoItem == [kind |-> "none", hdr |-> NoHdr]

Call(op, arg) == [op |-> op, arg |-> arg]

\* A Config that leaves entrypoint and command to the image.
CreateConfigDefault == [image |-> "image", entrypoint |-> <<>>, cmd |-> <<>>]

\* The Config of the CreateContainer call.
CreateConfig == [image |-> "image", entrypoint |-> <<"">>, cmd |-> <<"">>]

\* close(parsedErrors) of every attempt: the deferred closes of pullImage.
CloseAll(a) == [k \in 1..Len(a) |-> [a[k] EXCEPT !.chanClosed = TRUE]]

\* The parts of the state a run does not use.
\* The options of the scan and serve phases: chroot comes with serve only.
ServeOpts ==
    {so \in [scanType : {"", "openscap"}, serve : {"", ":8080"}, chroot : BOOLEAN] :
        so.chroot => so.serve # ""}

NoServeOpts == [scanType |-> "", serve |-> "", chroot |-> FALSE]

\* NewDefaultImageInspector: with a serve address the image server is built
\* here, around the destination path the options hold at this moment. scan,
\* chrootTo and served record the directories given to Scan, to
\* syscall.Chroot and to webdav.Dir.
NewDefaultImageInspector(dstPath, so) ==
    [scanType |-> so.scanType,
     imageServer |-> [set |-> so.serve # "", ImageServeURL |-> dstPath,
                      chroot |-> so.chroot],
     scan |-> <<"none">>, chrootTo |-> <<"none">>, served |-> <<"none">>]

AuxIdle ==
    /\ replay = "idle"
    /\ dl = "idle"
    /\ call = "idle"
    /\ srv = "idle" /\ ses = "idle"

InitExtraction ==
    /\ fs = InitialFS
    /\ pipeX = NoItem
    /\ prod = "idle"
    /\ prodResult = "running"
    /\ nItems = 0
    /\ streamEnd = "open"
    /\ hdr = NoHdr
    /\ openFiles = {}
    /\ consErr = "none"
    /\ logged = {}
    /\ applied = <<>>
    /\ lastCopy = [size |-> 0, written |-> 0]
    /\ xRet = "none"

\* The state when Inspect is called.
Init ==
    /\ pc = "NewClient"
    /\ ret = "none"
    /\ \E o \in PullOpts :
          opts = [dockerCfg |-> o.dockerCfg, username |-> o.username,
                  passwordReadable |-> o.passwordReadable, password |-> o.password,
                  dstPath |-> <<"dst">>]
    /\ \E so \in ServeOpts : handed = NewDefaultImageInspector(<<"dst">>, so)
    /\ imagePresent \in BOOLEAN
    /\ configs = {}
    /\ tried = <<>>
    /\ att = <<>>
    /\ pullRet = "none"
    /\ rtCalls = <<>>
    /\ panicked = FALSE
    /\ InitExtraction
    /\ AuxIdle

\* The state when pullImage has returned nil (the anonymous pull succeeded and
\* its goroutines are gone), for every destination a caller may name.
InitExtract ==
    /\ pc = "genName"
    /\ ret = "none"
    /\ \E d \in DstPaths, so \in ServeOpts :
          /\ opts = [dockerCfg |-> <<>>, username |-> "", passwordReadable |-> TRUE,
                     password |-> "", dstPath |-> d]
          /\ handed = NewDefaultImageInspector(d, so)
    /\ imagePresent = FALSE
    /\ configs = {AnonymousKey}
    /\ tried = <<AnonymousKey>>
    /\ att = <<FinishedAttempt>>
    /\ pullRet = "nil"
    /\ rtCalls = <<Call("PullImage", "image")>>
    /\ panicked = FALSE
    /\ InitExtraction
    /\ AuxIdle

\* ------------------------------------------------------------------ Inspect
InspectNewClient ==
    /\ ~panicked /\ pc = "NewClient"
    /\ pc' = "pullImage"
    /\ UNCHANGED <<ret, opts, imagePresent, pullVars, rtVars, xVars>>
    /\ UNCHANGED auxVars

InspectNewClientFail ==
    /\ ~panicked /\ pc = "NewClient"
    /\ pc' = "done" /\ ret' = "ErrConnect"
    /\ UNCHANGED <<opts, imagePresent, pullVars, rtVars, xVars>>
    /\ UNCHANGED auxVars

\* ---------------------------------------------------------------- pullImage
PullGetAuth ==
    /\ ~panicked /\ pc = "pullImage"
    /\ ~GetAuthConfigs(opts).err
    /\ configs' = GetAuthConfigs(opts).configs
    /\ pc' = "pullLoop"
    /\ UNCHANGED <<ret, opts, imagePresent, tried, att, pullRet, rtVars, xVars>>
    /\ UNCHANGED auxVars

PullGetAuthFail ==
    /\ ~panicked /\ pc = "pullImage"
    /\ GetAuthConfigs(opts).err
    /\ pc' = "done" /\ ret' = "ErrAuthCfg" /\ pullRet' = "ErrAuthCfg"
    /\ UNCHANGED <<opts, imagePresent, configs, tried, att, rtVars, xVars>>
    /\ UNCHANGED auxVars

\* One iteration of the range loop: a fresh channel and the attempt's goroutine.
PullStartAttempt ==
    /\ ~panicked /\ pc = "pullLoop"
    /\ \E name \in configs \ Range(tried) :
          /\ tried' = Append(tried, name)
          /\ att' = Append(att, NewAttempt)
    /\ pc' = "pullRecv"
    /\ UNCHANGED <<ret, opts, imagePresent, configs, pullRet, rtVars, xVars>>
    /\ UNCHANGED auxVars

\* An Inspect that goes on to the container after every attempt failed.
PullExhaustedGoesOn ==
    /\ ~panicked /\ pc = "pullLoop"
    /\ configs \ Range(tried) = {}
    /\ att' = CloseAll(att)
    /\ pc' = "genName" /\ pullRet' = "ErrPull"
    /\ UNCHANGED <<ret, opts, imagePresent, configs, tried, rtVars, xVars>>
    /\ UNCHANGED auxVars

\* The range loop is over: the aggregate error, and the deferred closes.
PullExhausted ==
    /\ ~panicked /\ pc = "pullLoop"
    /\ configs \ Range(tried) = {}
    /\ att' = CloseAll(att)
    /\ pc' = "done" /\ ret' = "ErrPull" /\ pullRet' = "ErrPull"
    /\ UNCHANGED <<opts, imagePresent, configs, tried, rtVars, xVars>>
    /\ UNCHANGED auxVars

\* A loop that takes whatever the channel delivers for success.
PullJudgedNeverFailed(v) == FALSE

\* if parsedError := <-parsedErrors; parsedError != nil
PullJudgedFailed(v) == v # "nil"

\* parsedError is not nil: log it and go on with the loop.
PullRecvFail ==
    /\ ~panicked /\ pc = "pullRecv"
    /\ att[Len(att)].chan # <<>>
    /\ PullJudgedFailed(Head(att[Len(att)].chan))
    /\ att' = [att EXCEPT ![Len(att)].chan = Tail(@)]
    /\ pc' = "pullLoop"
    /\ UNCHANGED <<ret, opts, imagePresent, configs, tried, pullRet, rtVars, xVars>>
    /\ UNCHANGED auxVars

\* parsedError is nil: return nil, and the deferred closes.
PullRecvOK ==
    /\ ~panicked /\ pc = "pullRecv"
    /\ att[Len(att)].chan # <<>>
    /\ ~PullJudgedFailed(Head(att[Len(att)].chan))
    /\ att' = CloseAll([att EXCEPT ![Len(att)].chan = Tail(@)])
    /\ pc' = "genName" /\ pullRet' = "nil"
    /\ UNCHANGED <<ret, opts, imagePresent, configs, tried, rtVars, xVars>>
    /\ UNCHANGED auxVars

\* The attempt's goroutine: the pipe, the decoder, then client.PullImage.
PullerStart ==
    /\ ~panicked
    /\ \E k \in 1..Len(att) :
          /\ att[k].puller = "start"
          /\ att' = [att EXCEPT ![k].puller = "pulling", ![k].decoder = "read"]
    /\ rtCalls' = Append(rtCalls, Call("PullImage", "image"))
    /\ UNCHANGED <<mainVars, configs, tried, pullRet, panicked, xVars>>
    /\ UNCHANGED auxVars

\* PullImage writes one message into the pipe; the write returns once read.
PullerWrite ==
    /\ ~panicked
    /\ \E k \in 1..Len(att), m \in MsgKinds :
          /\ att[k].puller = "pulling"
          /\ att[k].pipe = "none"
          /\ att[k].nWritten < MaxMsgs
          /\ att' = [att EXCEPT ![k].pipe = m, ![k].nWritten = @ + 1,
                                ![k].bad = @ \/ m # "status"]
    /\ UNCHANGED <<mainVars, configs, tried, pullRet, rtVars, xVars>>
    /\ UNCHANGED auxVars

\* PullImage returns, with or without an error.
PullerReturn ==
    /\ ~panicked
    /\ \E k \in 1..Len(att), r \in {"ok", "err"} :
          /\ att[k].puller = "pulling"
          /\ att[k].pipe = "none"
          /\ att' = [att EXCEPT ![k].result = r,
                                ![k].puller = IF r = "err" THEN "senderr" ELSE "deferred"]
    /\ UNCHANGED <<mainVars, configs, tried, pullRet, rtVars, xVars>>
    /\ UNCHANGED auxVars

\* parsedErrors <- err: a panic once the channel is closed.
PullerSendErr ==
    /\ ~panicked
    /\ \E k \in 1..Len(att) :
          /\ att[k].puller = "senderr"
          /\ IF att[k].chanClosed
             THEN /\ panicked' = TRUE
                  /\ UNCHANGED att
             ELSE /\ att' = [att EXCEPT ![k].chan = Append(@, "pull"), ![k].puller = "deferred"]
                  /\ UNCHANGED panicked
    /\ UNCHANGED <<mainVars, configs, tried, pullRet, rtCalls, xVars>>
    /\ UNCHANGED auxVars

\* The deferred reader.Close() and writer.Close().
PullerDefer ==
    /\ ~panicked
    /\ \E k \in 1..Len(att) :
          /\ att[k].puller = "deferred"
          /\ att' = [att EXCEPT ![k].puller = "done", ![k].readerClosed = TRUE]
    /\ UNCHANGED <<mainVars, configs, tried, pullRet, rtVars, xVars>>
    /\ UNCHANGED auxVars

\* ------------------------------------------------------ decodeDockerResponse
\* dec.Decode reads the pending write into the decoder's buffer.
DecRead ==
    /\ ~panicked
    /\ \E k \in 1..Len(att) :
          /\ att[k].decoder = "read"
          /\ att[k].pipe # "none"
          /\ att' = [att EXCEPT ![k].decBuf = att[k].pipe, ![k].pipe = "none",
                                ![k].decoder = "process"]
    /\ UNCHANGED <<mainVars, configs, tried, pullRet, rtVars, xVars>>
    /\ UNCHANGED auxVars

\* dec.Decode on the closed pipe: io.ErrClosedPipe or io.EOF, so nil is sent.
DecEOF ==
    /\ ~panicked
    /\ \E k \in 1..Len(att) :
          /\ att[k].decoder = "read"
          /\ att[k].pipe = "none"
          /\ att[k].readerClosed
          /\ IF att[k].chanClosed
             THEN /\ panicked' = TRUE
                  /\ UNCHANGED att
             ELSE /\ att' = [att EXCEPT ![k].chan = Append(@, "nil"), ![k].decoder = "done"]
                  /\ UNCHANGED panicked
    /\ UNCHANGED <<mainVars, configs, tried, pullRet, rtCalls, xVars>>
    /\ UNCHANGED auxVars

\* A decoder that reads over what it cannot decode.
DecVerdictLenient(m) ==
    CASE m = "error" -> "msg"
      [] OTHER -> "continue"

\* What the decoder does with one decoded message: the error it sends before
\* it breaks out of the loop, or "continue".
DecVerdict(m) ==
    CASE m = "malformed" -> "json"
      [] m = "error" -> "msg"
      [] OTHER -> "continue"

DecProcess ==
    /\ ~panicked
    /\ \E k \in 1..Len(att) :
          /\ att[k].decoder = "process"
          /\ LET v == DecVerdict(att[k].decBuf)
             IN IF v = "continue"
                THEN /\ att' = [att EXCEPT ![k].decoder = "read", ![k].decBuf = "none"]
                     /\ UNCHANGED panicked
                ELSE IF att[k].chanClosed
                     THEN /\ panicked' = TRUE
                          /\ UNCHANGED att
                     ELSE /\ att' = [att EXCEPT ![k].chan = Append(@, v), ![k].decoder = "done",
                                                ![k].decBuf = "none"]
                          /\ UNCHANGED panicked
    /\ UNCHANGED <<mainVars, configs, tried, pullRet, rtCalls, xVars>>
    /\ UNCHANGED auxVars

\* ------------------------------------------------------- generateRandomName
XGenName ==
    /\ ~panicked /\ pc = "genName"
    /\ pc' = "create"
    /\ UNCHANGED <<ret, opts, imagePresent, pullVars, rtVars, xVars>>
    /\ UNCHANGED auxVars

XGenNameFail ==
    /\ ~panicked /\ pc = "genName"
    /\ pc' = "done" /\ ret' = "ErrRandomName"
    /\ UNCHANGED <<opts, imagePresent, pullVars, rtVars, xVars>>
    /\ UNCHANGED auxVars

\* ---------------------------------------------------- createAndExtractImage
XCreate ==
    /\ ~panicked /\ pc = "create"
    /\ rtCalls' = Append(rtCalls, Call("CreateContainer", CreateConfig))
    /\ pc' = "inspectC"
    /\ UNCHANGED <<ret, opts, imagePresent, pullVars, panicked, xVars>>
    /\ UNCHANGED auxVars

\* CreateContainer failed: return before the removal is deferred.
XCreateFail ==
    /\ ~panicked /\ pc = "create"
    /\ rtCalls' = Append(rtCalls, Call("CreateContainerFailed", CreateConfig))
    /\ xRet' = "ErrCreate"
    /\ pc' = "done" /\ ret' = "ErrCreate"
    /\ UNCHANGED <<opts, imagePresent, pullVars, panicked, fs, pipeX, prodVars, tarVars>>
    /\ UNCHANGED auxVars

XInspectContainer ==
    /\ ~panicked /\ pc = "inspectC"
    /\ rtCalls' = Append(rtCalls, Call("InspectContainer", "cid"))
    /\ pc' = "inspectI"
    /\ UNCHANGED <<ret, opts, imagePresent, pullVars, panicked, xVars>>
    /\ UNCHANGED auxVars

\* A return of createAndExtractImage that skips the deferred calls.
ReturnWithoutDefer == "done"

\* Where a return that follows the successful CreateContainer goes: to the
\* deferred calls.
ReturnPath == "remove"

XInspectContainerFail ==
    /\ ~panicked /\ pc = "inspectC"
    /\ rtCalls' = Append(rtCalls, Call("InspectContainer", "cid"))
    /\ xRet' = "ErrInspectContainer"
    /\ pc' = ReturnPath
    /\ UNCHANGED <<ret, opts, imagePresent, pullVars, panicked, fs, pipeX, prodVars, tarVars>>
    /\ UNCHANGED auxVars

XInspectImage ==
    /\ ~panicked /\ pc = "inspectI"
    /\ rtCalls' = Append(rtCalls, Call("InspectImage", "image"))
    /\ pc' = "mkOut"
    /\ UNCHANGED <<ret, opts, imagePresent, pullVars, panicked, xVars>>
    /\ UNCHANGED auxVars

XInspectImageFail ==
    /\ ~panicked /\ pc = "inspectI"
    /\ rtCalls' = Append(rtCalls, Call("InspectImage", "image"))
    /\ xRet' = "ErrInspectImage"
    /\ pc' = ReturnPath
    /\ UNCHANGED <<ret, opts, imagePresent, pullVars, panicked, fs, pipeX, prodVars, tarVars>>
    /\ UNCHANGED auxVars

\* A createOutputDir that takes an existing directory for a failure.
CreateOutputDirStrict(F, dirName) ==
    LET mk == Mkdir(F, IF dirName # <<>> THEN dirName ELSE TempDirName,
                    IF dirName # <<>> THEN 493 ELSE 448)
    IN IF mk.err # "" THEN [err |-> TRUE, F |-> F, name |-> <<>>]
       ELSE [err |-> FALSE, F |-> mk.F, name |-> IF dirName # <<>> THEN dirName ELSE TempDirName]

\* createOutputDir: the directory's name, or an error.
CreateOutputDir(F, dirName) ==
    IF dirName # <<>>
    THEN LET mk == Mkdir(F, dirName, 493)
         IN IF mk.err \notin {"", "EEXIST"}
            THEN [err |-> TRUE, F |-> F, name |-> <<>>]
            ELSE [err |-> FALSE, F |-> mk.F, name |-> dirName]
    ELSE LET mk == Mkdir(F, TempDirName, 448)
         IN IF mk.err # ""
            THEN [err |-> TRUE, F |-> F, name |-> <<>>]
            ELSE [err |-> FALSE, F |-> mk.F, name |-> TempDirName]

XCreateOutputDir ==
    /\ ~panicked /\ pc = "mkOut"
    /\ ~CreateOutputDir(fs, opts.dstPath).err
    /\ fs' = CreateOutputDir(fs, opts.dstPath).F
    /\ opts' = [opts EXCEPT !.dstPath = CreateOutputDir(fs, opts.dstPath).name]
    /\ pc' = "startCopy"
    /\ UNCHANGED <<ret, imagePresent, pullVars, rtVars, pipeX, prodVars, tarVars, xRet>>
    /\ UNCHANGED auxVars

XCreateOutputDirFail ==
    /\ ~panicked /\ pc = "mkOut"
    /\ CreateOutputDir(fs, opts.dstPath).err
    /\ opts' = [opts EXCEPT !.dstPath = <<>>]
    /\ xRet' = "ErrOutputDir"
    /\ pc' = ReturnPath
    /\ UNCHANGED <<ret, imagePresent, pullVars, rtVars, fs, pipeX, prodVars, tarVars>>
    /\ UNCHANGED auxVars

\* io.Pipe(), the goroutine of the copy, then handleTarStream.
XStartCopy ==
    /\ ~panicked /\ pc = "startCopy"
    /\ prod' = "start"
    /\ pc' = "tarNext"
    /\ UNCHANGED <<ret, opts, imagePresent, pullVars, rtVars, fs, pipeX, prodResult, nItems,
                   streamEnd, tarVars, xRet>>
    /\ UNCHANGED auxVars

\* A receive that does not wait for the send.
ErrorChannelAlwaysReady == TRUE

\* err = <-errorChannel: the channel is unbuffered, the receive meets the send.
ErrorChannelReady == prod = "send"

\* An extraction that drops the error of the copy.
ExtractionErrorDropped(r) == "nil"

\* if err != nil: "Unable to extract container", else nil.
ExtractionError(r) == IF r = "err" THEN "ErrExtract" ELSE "nil"

XRecvErr ==
    /\ ~panicked /\ pc = "recvErr"
    /\ ErrorChannelReady
    /\ prod' = "done"
    /\ xRet' = ExtractionError(prodResult)
    /\ pc' = ReturnPath
    /\ UNCHANGED <<ret, opts, imagePresent, pullVars, rtVars, fs, pipeX, prodResult, nItems,
                   streamEnd, tarVars>>
    /\ UNCHANGED auxVars

\* A return that reports a failed removal of the container.
XRemoveChecked ==
    /\ ~panicked /\ pc = "remove"
    /\ \E removed \in BOOLEAN :
          /\ rtCalls' = Append(rtCalls, Call(IF removed THEN "RemoveContainer"
                                             ELSE "RemoveContainerFailed", "cid"))
          /\ pc' = IF xRet = "nil" /\ removed THEN "postExtract" ELSE "done"
          /\ ret' = IF xRet = "nil" THEN (IF removed THEN ret ELSE "ErrRemove") ELSE xRet
    /\ UNCHANGED <<opts, imagePresent, pullVars, panicked, xVars>>
    /\ UNCHANGED auxVars

\* The deferred calls: the pipe is closed, the container removed (the result
\* of the removal is dropped), and createAndExtractImage returns to Inspect.
XRemove ==
    /\ ~panicked /\ pc = "remove"
    /\ \E removed \in BOOLEAN :
          rtCalls' = Append(rtCalls, Call(IF removed THEN "RemoveContainer"
                                          ELSE "RemoveContainerFailed", "cid"))
    /\ pc' = IF xRet = "nil" THEN "postExtract" ELSE "done"
    /\ ret' = IF xRet = "nil" THEN ret ELSE xRet
    /\ UNCHANGED <<opts, imagePresent, pullVars, panicked, xVars>>
    /\ UNCHANGED auxVars

\* The scan and serve phases of Inspect: no call on the docker client.
PostFrame ==
    UNCHANGED <<opts, imagePresent, pullVars, rtVars, xVars, replay, dl, call, srv, ses>>

\* The scan phase: the scanner is given i.opts.DstPath; its error is logged.
InspectScan ==
    /\ ~panicked /\ pc = "postExtract"
    /\ handed.scanType = "openscap"
    /\ handed' = [handed EXCEPT !.scan = opts.dstPath]
    /\ pc' = "serve"
    /\ UNCHANGED ret
    /\ PostFrame

\* The directory of the scan results cannot be created.
InspectScanDirFail ==
    /\ ~panicked /\ pc = "postExtract"
    /\ handed.scanType = "openscap"
    /\ pc' = "done" /\ ret' = "ErrScanDir"
    /\ UNCHANGED handed
    /\ PostFrame

InspectNoScan ==
    /\ ~panicked /\ pc = "postExtract"
    /\ handed.scanType # "openscap"
    /\ pc' = "serve"
    /\ UNCHANGED <<ret, handed>>
    /\ PostFrame

\* webdav.Dir(""): the current directory of the process.
Cwd == <<"cwd">>

WebdavDir(servePath) == IF servePath = <<>> THEN Cwd ELSE servePath

\* ServeImage: after a chroot into ImageServeURL the root is served, otherwise
\* ImageServeURL itself; it returns when the listener fails.
InspectServe ==
    /\ ~panicked /\ pc = "serve"
    /\ handed.imageServer.set
    /\ LET url == handed.imageServer.ImageServeURL
       IN IF handed.imageServer.chroot
          THEN /\ url # <<>> /\ Lookup(fs, url, TRUE).err = ""
               /\ handed' = [handed EXCEPT !.chrootTo = url, !.served = url]
          ELSE handed' = [handed EXCEPT !.served = WebdavDir(url)]
    /\ pc' = "done" /\ ret' = "ErrServe"
    /\ PostFrame

\* syscall.Chroot fails: ServeImage returns its error and serves nothing.
InspectServeChrootFail ==
    /\ ~panicked /\ pc = "serve"
    /\ handed.imageServer.set /\ handed.imageServer.chroot
    /\ handed' = [handed EXCEPT !.chrootTo = handed.imageServer.ImageServeURL]
    /\ pc' = "done" /\ ret' = "ErrServe"
    /\ PostFrame

\* No image server: the results are posted, or nothing more happens.
InspectNoServe ==
    /\ ~panicked /\ pc = "serve"
    /\ ~handed.imageServer.set
    /\ pc' = "done" /\ ret' = "nil"
    /\ UNCHANGED handed
    /\ PostFrame

\* ---------------------------------------- the DownloadFromContainer goroutine
ProdStart ==
    /\ ~panicked /\ prod = "start"
    /\ prod' = "copying"
    /\ rtCalls' = Append(rtCalls, Call("DownloadFromContainer", "cid"))
    /\ UNCHANGED <<mainVars, pullVars, panicked, fs, pipeX, prodResult, nItems, streamEnd,
                   tarVars, xRet>>
    /\ UNCHANGED auxVars

\* One Write into the pipe; it returns once the reader has taken all of it.
ProdWriteEntry ==
    /\ ~panicked /\ prod = "copying" /\ pipeX = NoItem
    /\ streamEnd = "open" /\ nItems < MaxEntries
    /\ \E e \in EntryPool : pipeX' = [kind |-> "entry", hdr |-> e]
    /\ nItems' = nItems + 1
    /\ UNCHANGED <<mainVars, pullVars, rtVars, fs, prod, prodResult, streamEnd, tarVars, xRet>>
    /\ UNCHANGED auxVars

\* The end-of-archive marker, or bytes that are no tar header.
ProdWriteEnd ==
    /\ ~panicked /\ prod = "copying" /\ pipeX = NoItem
    /\ streamEnd = "open"
    /\ \E k \in {"eoa", "garbage"} :
          /\ pipeX' = [kind |-> k, hdr |-> NoHdr]
          /\ streamEnd' = k
    /\ UNCHANGED <<mainVars, pullVars, rtVars, fs, prod, prodResult, nItems, tarVars, xRet>>
    /\ UNCHANGED auxVars

\* Bytes after the end-of-archive marker.
ProdWritePad ==
    /\ ~panicked /\ prod = "copying" /\ pipeX = NoItem
    /\ streamEnd = "eoa"
    /\ pipeX' = [kind |-> "pad", hdr |-> NoHdr]
    /\ streamEnd' = "pad"
    /\ UNCHANGED <<mainVars, pullVars, rtVars, fs, prod, prodResult, nItems, tarVars, xRet>>
    /\ UNCHANGED auxVars

\* DownloadFromContainer returns; the goroutine goes on to send the result.
ProdReturn ==
    /\ ~panicked /\ prod = "copying" /\ pipeX = NoItem
    /\ \E r \in {"ok", "err"} : prodResult' = r
    /\ prod' = "send"
    /\ UNCHANGED <<mainVars, pullVars, rtVars, fs, pipeX, nItems, streamEnd, tarVars, xRet>>
    /\ UNCHANGED auxVars

\* ------------------------------------------ handleTarStream, processTarStream
\* A handleTarStream that logs nothing.
HandleTarStreamSilent(err) == logged

\* handleTarStream: the error of processTarStream is logged, nothing returned.
HandleTarStreamLog(err) == IF err = "nil" THEN logged ELSE logged \cup {err}

\* tr.Next() reads a header.
TarNextEntry ==
    /\ ~panicked /\ pc = "tarNext"
    /\ pipeX.kind = "entry"
    /\ hdr' = pipeX.hdr
    /\ pipeX' = IF pipeX.hdr.typ = "reg" /\ pipeX.hdr.size > 0
                THEN [kind |-> "payload", hdr |-> pipeX.hdr]
                ELSE NoItem
    /\ pc' = "tarApply"
    /\ UNCHANGED <<ret, opts, imagePresent, pullVars, rtVars, fs, prodVars, openFiles, consErr,
                   logged, applied, lastCopy, xRet>>
    /\ UNCHANGED auxVars

\* tr.Next() returns io.EOF at the end-of-archive marker: return nil.
TarNextEOF ==
    /\ ~panicked /\ pc = "tarNext"
    /\ pipeX.kind = "eoa"
    /\ pipeX' = NoItem
    /\ consErr' = "nil"
    /\ logged' = HandleTarStreamLog("nil")
    /\ pc' = "recvErr"
    /\ UNCHANGED <<ret, opts, imagePresent, pullVars, rtVars, fs, prodVars, hdr, openFiles,
                   applied, lastCopy, xRet>>
    /\ UNCHANGED auxVars

\* tr.Next() returns another error: "Unable to extract container".
TarNextError ==
    /\ ~panicked /\ pc = "tarNext"
    /\ pipeX.kind = "garbage"
    /\ pipeX' = NoItem
    /\ consErr' = "ErrTarRead"
    /\ logged' = HandleTarStreamLog("ErrTarRead")
    /\ pc' = "recvErr"
    /\ UNCHANGED <<ret, opts, imagePresent, pullVars, rtVars, fs, prodVars, hdr, openFiles,
                   applied, lastCopy, xRet>>
    /\ UNCHANGED auxVars

\* The switch on hdr.Typeflag, for the types that carry no payload.
ApplyEntry(F, destination, h) ==
    CASE h.typ = "dir" -> ApplyDir(F, destination, h)
      [] h.typ = "symlink" -> ApplySymlink(F, destination, h)
      [] h.typ = "link" -> ApplyLink(F, destination, h)
      [] OTHER -> ApplyOther(F, destination, h)

Applied(h) == [dst |-> DstPath(opts.dstPath, h), typ |-> h.typ]

\* A directory, link or skipped entry is done (os.Chtimes follows, its
\* result dropped) and the loop goes on.
TarApplyOK ==
    /\ ~panicked /\ pc = "tarApply" /\ hdr.typ # "reg"
    /\ ApplyEntry(fs, opts.dstPath, hdr).err = ""
    /\ fs' = ApplyEntry(fs, opts.dstPath, hdr).F
    /\ applied' = Append(applied, Applied(hdr))
    /\ hdr' = NoHdr
    /\ pc' = "tarNext"
    /\ UNCHANGED <<ret, opts, imagePresent, pullVars, rtVars, pipeX, prodVars, openFiles,
                   consErr, logged, lastCopy, xRet>>
    /\ UNCHANGED auxVars

\* A replay that drops the entry that cannot be materialized and reads on.
TarApplyFailSkipped ==
    /\ ~panicked /\ pc = "tarApply" /\ hdr.typ # "reg"
    /\ ApplyEntry(fs, opts.dstPath, hdr).err # ""
    /\ hdr' = NoHdr
    /\ pc' = "tarNext"
    /\ UNCHANGED <<ret, opts, imagePresent, pullVars, rtVars, fs, pipeX, prodVars, consErr,
                   logged, openFiles, applied, lastCopy, xRet>>
    /\ UNCHANGED auxVars

\* The entry cannot be materialized: processTarStream returns the error.
TarApplyFail ==
    /\ ~panicked /\ pc = "tarApply" /\ hdr.typ # "reg"
    /\ ApplyEntry(fs, opts.dstPath, hdr).err # ""
    /\ consErr' = ApplyEntry(fs, opts.dstPath, hdr).err
    /\ logged' = HandleTarStreamLog(ApplyEntry(fs, opts.dstPath, hdr).err)
    /\ pc' = "recvErr"
    /\ UNCHANGED <<ret, opts, imagePresent, pullVars, rtVars, fs, pipeX, prodVars, hdr,
                   openFiles, applied, lastCopy, xRet>>
    /\ UNCHANGED auxVars

\* case tar.TypeReg: os.OpenFile
TarOpenOK ==
    /\ ~panicked /\ pc = "tarApply" /\ hdr.typ = "reg"
    /\ OpenFile(fs, DstPath(opts.dstPath, hdr), EntryMode(hdr)).err = ""
    /\ fs' = OpenFile(fs, DstPath(opts.dstPath, hdr), EntryMode(hdr)).F
    /\ openFiles' = openFiles \cup {OpenFile(fs, DstPath(opts.dstPath, hdr), EntryMode(hdr)).ino}
    /\ pc' = "tarCopy"
    /\ UNCHANGED <<ret, opts, imagePresent, pullVars, rtVars, pipeX, prodVars, hdr, consErr,
                   logged, applied, lastCopy, xRet>>
    /\ UNCHANGED auxVars

TarOpenFail ==
    /\ ~panicked /\ pc = "tarApply" /\ hdr.typ = "reg"
    /\ OpenFile(fs, DstPath(opts.dstPath, hdr), EntryMode(hdr)).err # ""
    /\ consErr' = "ErrCreateFile"
    /\ logged' = HandleTarStreamLog("ErrCreateFile")
    /\ pc' = "recvErr"
    /\ UNCHANGED <<ret, opts, imagePresent, pullVars, rtVars, fs, pipeX, prodVars, hdr,
                   openFiles, applied, lastCopy, xRet>>
    /\ UNCHANGED auxVars

\* The inode the open file of the current entry refers to.
CurrentFile == CHOOSE i \in openFiles : TRUE

\* A copy that stops one byte short of the declared size.
IoCopyShort(h) == SubSeq(Payload, 1, h.size - 1)

\* io.Copy(file, tr): the bytes it writes when no write fails.
IoCopy(h) == SubSeq(Payload, 1, h.size)

\* file.Close()
FileClose(open, ino) == open \ {ino}

\* io.Copy wrote the payload; the file is closed and the loop goes on.
TarCopyOK ==
    /\ ~panicked /\ pc = "tarCopy"
    /\ hdr.size = 0 \/ pipeX.kind = "payload"
    /\ fs' = [fs EXCEPT !.inodes[CurrentFile].data = IoCopy(hdr)]
    /\ lastCopy' = [size |-> hdr.size, written |-> Len(IoCopy(hdr))]
    /\ openFiles' = FileClose(openFiles, CurrentFile)
    /\ pipeX' = NoItem
    /\ applied' = Append(applied, Applied(hdr))
    /\ hdr' = NoHdr
    /\ pc' = "tarNext"
    /\ UNCHANGED <<ret, opts, imagePresent, pullVars, rtVars, prodVars, consErr, logged, xRet>>
    /\ UNCHANGED auxVars

\* A write fails (the disk is full): the file is closed, the error returned.
TarCopyFail ==
    /\ ~panicked /\ pc = "tarCopy"
    /\ pipeX.kind = "payload"
    /\ \E n \in 0..(hdr.size - 1) :
          /\ fs' = [fs EXCEPT !.inodes[CurrentFile].data = SubSeq(IoCopy(hdr), 1, n)]
          /\ lastCopy' = [size |-> hdr.size, written |-> n]
    /\ openFiles' = FileClose(openFiles, CurrentFile)
    /\ pipeX' = NoItem
    /\ consErr' = "ErrWriteFile"
    /\ logged' = HandleTarStreamLog("ErrWriteFile")
    /\ pc' = "recvErr"
    /\ UNCHANGED <<ret, opts, imagePresent, pullVars, rtVars, prodVars, hdr, applied, xRet>>
    /\ UNCHANGED auxVars

\* ------------------------------------------------------------ specifications
NextPull ==
    \/ InspectNewClient
    \/ InspectNewClientFail
    \/ PullGetAuth
    \/ PullGetAuthFail
    \/ PullStartAttempt
    \/ PullExhausted
    \/ PullRecvFail
    \/ PullRecvOK
    \/ PullerStart
    \/ PullerWrite
    \/ PullerReturn
    \/ PullerSendErr
    \/ PullerDefer
    \/ DecRead
    \/ DecEOF
    \/ DecProcess

NextExtract ==
    \/ XGenName
    \/ XGenNameFail
    \/ XCreate
    \/ XCreateFail
    \/ XInspectContainer
    \/ XInspectContainerFail
    \/ XInspectImage
    \/ XInspectImageFail
    \/ XCreateOutputDir
    \/ XCreateOutputDirFail
    \/ XStartCopy
    \/ XRecvErr
    \/ XRemove
    \/ InspectScan
    \/ InspectScanDirFail
    \/ InspectNoScan
    \/ InspectServe
    \/ InspectServeChrootFail
    \/ InspectNoServe
    \/ ProdStart
    \/ ProdWriteEntry
    \/ ProdWriteEnd
    \/ ProdWritePad
    \/ ProdReturn
    \/ TarNextEntry
    \/ TarNextEOF
    \/ TarNextError
    \/ TarApplyOK
    \/ TarApplyFail
    \/ TarOpenOK
    \/ TarOpenFail
    \/ TarCopyOK
    \/ TarCopyFail

Next == NextPull \/ NextExtract

\* Inspect from its call to its return.
Spec == Init /\ [][Next]_vars

\* Inspect up to the return of pullImage.
SpecPull == Init /\ [][NextPull]_vars

\* Inspect from the return of pullImage on.
SpecExtract == InitExtract /\ [][NextExtract]_vars

\* ------------------------------------------------------------ observations
\* The calls of one kind the docker client has received.
CallsOf(ops) == {k \in 1..Len(rtCalls) : rtCalls[k].op \in ops}
PullCalls == Cardinality(CallsOf({"PullImage"}))
RemoveCalls == Cardinality(CallsOf({"RemoveContainer", "RemoveContainerFailed"}))
ContainerCreated == CallsOf({"CreateContainer"}) # {}

\* What became of an attempt: the runtime reported a failure, by the error of
\* PullImage or by a message in the stream that is an error or no JSON.
AttemptFailed(k) == att[k].result = "err" \/ att[k].bad
AttemptSucceeded(k) == att[k].result = "ok" /\ ~att[k].bad

\* The path names a directory entry (a symbolic link counts, dangling or not).
PathExists(F, path) ==
    LET w == Lookup(F, path, FALSE) IN w.err = "" /\ w.path \in DOMAIN F.nodes

\* The path resolves, symbolic links followed, to a directory or a file.
Resolves(F, path) ==
    LET w == Lookup(F, path, TRUE) IN w.err = "" /\ w.path \in DOMAIN F.nodes

\* Mode and content of what the path resolves to.
ModeAt(F, path) ==
    LET n == F.nodes[Lookup(F, path, TRUE).path]
    IN IF n.kind = "dir" THEN n.mode ELSE F.inodes[n.ino].mode
DataAt(F, path) == F.inodes[F.nodes[Lookup(F, path, TRUE).path].ino].data

LastApplied == applied[Len(applied)]

\* ------------------------------------------------------------------ claims
\* C1: when pullImage returns nil, every attempt but the last failed, the
\* last one succeeded, and exactly that many PullImage calls were started
\* (M failures: M+1 attempts); when it returns the aggregate error, one
\* attempt per configured credential was started and every one failed.
C1_AttemptsUntilFirstSuccess ==
    /\ pullRet = "nil" =>
          /\ Len(att) >= 1
          /\ PullCalls = Len(att)
          /\ \A k \in 1..(Len(att) - 1) : AttemptFailed(k)
          /\ AttemptSucceeded(Len(att))
    /\ pullRet = "ErrPull" =>
          /\ Len(att) = Cardinality(configs)
          /\ PullCalls = Len(att)
          /\ \A k \in 1..Len(att) : AttemptFailed(k)
          /\ ret = "ErrPull"

\* pullImage returned nil on the second credential after the first failed.
C1_Witness == pullRet = "nil" /\ Len(att) = 2 /\ AttemptFailed(1) /\ PullCalls = 2

\* C2: when the image is already present locally, Inspect makes no
\* PullImage call.
C2_NoPullWhenPresent == imagePresent => PullCalls = 0

\* C3: RemoveContainer is invoked exactly once by the time
\* createAndExtractImage has returned after a successful CreateContainer,
\* never more than once, and never when CreateContainer failed.
C3_RemoveContainerOnce ==
    /\ RemoveCalls <= 1
    /\ ~ContainerCreated => RemoveCalls = 0
    /\ (pc \in {"postExtract", "done"} /\ ContainerCreated) => RemoveCalls = 1
    /\ \A k \in CallsOf({"RemoveContainer", "RemoveContainerFailed"}) : rtCalls[k].arg = "cid"

\* createAndExtractImage returned the error of the copy, the container removed.
C3_Witness == pc = "done" /\ xRet = "ErrExtract" /\ ContainerCreated /\ RemoveCalls = 1

\* C4: once DownloadFromContainer has returned an error after three entries
\* were materialized and without the rest of the stream, the extraction goes
\* on to return that error with the three entries on disk: it has returned
\* it, or a step towards that is possible.
C4_ProducerErrorReturned ==
    (prod = "send" /\ prodResult = "err" /\ Len(applied) = 3 /\ streamEnd = "open") =>
        \/ /\ pc = "done" /\ ret = "ErrExtract"
           /\ \A k \in 1..3 : applied[k].typ # "fifo" => PathExists(fs, applied[k].dst)
        \/ ENABLED NextExtract

\* C5: createAndExtractImage is past the extraction step, or has removed the
\* container, only when the copy was never started or both
\* DownloadFromContainer and processTarStream have returned.
C5_BothSidesReturned ==
    (pc \in {"remove", "postExtract", "done"} \/ RemoveCalls > 0) =>
        \/ prod = "idle"
        \/ prod = "done" /\ prodResult # "running" /\ consErr # "none"

\* The receive from errorChannel has happened after a replay of two entries.
C5_Witness == pc = "remove" /\ prod = "done" /\ consErr = "nil" /\ Len(applied) = 2

\* The errors processTarStream returns when it cannot materialize an entry.
MaterializationErrors ==
    {"ErrMkdir", "ErrChmod", "ErrCreateFile", "ErrWriteFile", "ErrSymlink", "ErrLink"}

\* C6 as stated: once createAndExtractImage has its result after a
\* materialization error on the consumer side, that error is the result.
C6_ConsumerErrorReturned ==
    (xRet # "none" /\ consErr \in MaterializationErrors) => xRet = consErr

\* C6, amended: a materialization error is logged by handleTarStream and is
\* not the result: the result is the error of DownloadFromContainer when it
\* returned one, and nil otherwise.
C6_ConsumerErrorOnlyLogged ==
    /\ consErr \in MaterializationErrors => consErr \in logged
    /\ (xRet # "none" /\ consErr \in MaterializationErrors) =>
          /\ xRet # consErr
          /\ xRet = IF prodResult = "err" THEN "ErrExtract" ELSE "nil"

\* A directory could not be created, and createAndExtractImage returned nil.
C6_Witness == consErr = "ErrMkdir" /\ xRet = "nil" /\ pc = "postExtract"

\* C7: the container is created with entrypoint [""] and command [""], and
\* the docker client receives no call but PullImage, CreateContainer,
\* InspectContainer, InspectImage, DownloadFromContainer and RemoveContainer:
\* the container is never started, and the calls that name it follow its
\* creation.
C7_CreatedNeverStarted ==
    /\ \A k \in 1..Len(rtCalls) :
          rtCalls[k].op \in {"PullImage", "CreateContainer", "CreateContainerFailed",
                             "InspectContainer", "InspectImage", "DownloadFromContainer",
                             "RemoveContainer", "RemoveContainerFailed"}
    /\ \A k \in CallsOf({"CreateContainer", "CreateContainerFailed"}) :
          /\ rtCalls[k].arg.entrypoint = <<"">>
          /\ rtCalls[k].arg.cmd = <<"">>
    /\ \A k \in CallsOf({"InspectContainer", "DownloadFromContainer", "RemoveContainer",
                         "RemoveContainerFailed"}) :
          /\ rtCalls[k].arg = "cid"
          /\ \E j \in CallsOf({"CreateContainer"}) : j < k

\* The container was created, inspected, copied out and removed.
C7_Witness ==
    /\ pc = "done" /\ ContainerCreated
    /\ CallsOf({"InspectContainer"}) # {}
    /\ CallsOf({"DownloadFromContainer"}) # {}
    /\ CallsOf({"RemoveContainer"}) # {}

\* C8: a regular file receives as many bytes as its header declares, at
\* most one file is open, and none is open outside the copy: not when the
\* next header is read, and not after a return on a write error, which
\* leaves fewer bytes than declared.
C8_CopiedThenClosed ==
    /\ Cardinality(openFiles) <= 1
    /\ pc # "tarCopy" => openFiles = {}
    /\ (pc = "tarNext" /\ applied # <<>> /\ LastApplied.typ = "reg") =>
          /\ lastCopy.written = lastCopy.size
          /\ Len(DataAt(fs, LastApplied.dst)) = lastCopy.size
    /\ consErr = "ErrWriteFile" => lastCopy.written < lastCopy.size /\ openFiles = {}

\* A regular file of two bytes was copied and the next header is awaited.
C8_Witness ==
    /\ pc = "tarNext" /\ applied # <<>> /\ LastApplied.typ = "reg"
    /\ lastCopy.size = Len(Payload) /\ lastCopy.written = Len(Payload)
    /\ openFiles = {}

\* The step of processTarStream that handles the current entry.
EntryStep == pc = "tarApply" /\ pc' # pc

\* C9 as stated: a directory entry whose path already exists is handled
\* without an error: the mode of the existing path becomes the header mode
\* with the owner's read and write bits, and the replay goes on.
C9_ExistingDirectoryContinues ==
    [][(EntryStep /\ hdr.typ = "dir" /\ PathExists(fs, DstPath(opts.dstPath, hdr))) =>
          /\ pc' = "tarNext" /\ consErr' = "none"
          /\ Resolves(fs', DstPath(opts.dstPath, hdr))
          /\ ModeAt(fs', DstPath(opts.dstPath, hdr)) = EntryMode(hdr)]_vars

\* C9, amended: a directory entry whose path already exists never aborts
\* the replay with the error of Mkdir. When the path resolves to a directory
\* or file, that one's mode becomes the header mode with the owner's read and
\* write bits and the replay goes on; when it does not (a dangling symbolic
\* link), the replay aborts with the error of Chmod and changes nothing.
C9_ExistingDirectoryChmod ==
    [][(EntryStep /\ hdr.typ = "dir" /\ PathExists(fs, DstPath(opts.dstPath, hdr))) =>
          /\ consErr' # "ErrMkdir"
          /\ IF Resolves(fs, DstPath(opts.dstPath, hdr))
             THEN /\ pc' = "tarNext" /\ consErr' = "none"
                  /\ ModeAt(fs', DstPath(opts.dstPath, hdr)) = EntryMode(hdr)
             ELSE /\ pc' = "recvErr" /\ consErr' = "ErrChmod"
                  /\ fs' = fs]_vars

\* A directory entry was replayed over a path an earlier entry had created.
C9_Witness ==
    /\ pc = "tarNext" /\ Len(applied) >= 2 /\ LastApplied.typ = "dir"
    /\ \E k \in 1..(Len(applied) - 1) : applied[k].dst = LastApplied.dst
    /\ ModeAt(fs, LastApplied.dst) = BitOr(292, OWNER_PERM_RW)

BaseIdle ==
    /\ pc = "idle" /\ ret = "none"
    /\ opts = [dockerCfg |-> <<>>, username |-> "", passwordReadable |-> TRUE,
               password |-> "", dstPath |-> <<>>]
    /\ imagePresent = FALSE
    /\ configs = {} /\ tried = <<>> /\ att = <<>> /\ pullRet = "none"
    /\ rtCalls = <<>> /\ panicked = FALSE
    /\ pipeX = NoItem /\ prod = "idle" /\ prodResult = "running"
    /\ nItems = 0 /\ streamEnd = "open"
    /\ hdr = NoHdr /\ openFiles = {} /\ consErr = "none" /\ logged = {}
    /\ applied = <<>> /\ lastCopy = [size |-> 0, written |-> 0]
    /\ xRet = "none"

\* Two fresh destinations on one machine.
ReplayDests == <<<<"d1">>, <<"d2">>>>

ReplayFS ==
    [nodes |-> (<<"d1">> :> DirNode(493)) @@ (<<"d2">> :> DirNode(493)) @@ InitialFS.nodes,
     inodes |-> <<>>]

\* Archives of directories, regular files, symbolic links and hard links.
ReplayPool == {e \in EntryPool : e.typ # "fifo"}

\* case tar.TypeReg when no write fails: os.OpenFile, io.Copy, file.Close.
ApplyReg(F, destination, h) ==
    LET o == OpenFile(F, DstPath(destination, h), EntryMode(h))
    IN IF o.err # "" THEN [err |-> "ErrCreateFile", F |-> F]
       ELSE [err |-> "", F |-> [o.F EXCEPT !.inodes[o.ino].data = IoCopy(h)]]

\* One pass of the loop of processTarStream over a header.
ProcessEntry(F, destination, h) ==
    IF h.typ = "reg" THEN ApplyReg(F, destination, h) ELSE ApplyEntry(F, destination, h)

InitReplay ==
    /\ BaseIdle
    /\ fs = ReplayFS
    /\ handed = NewDefaultImageInspector(<<>>, NoServeOpts)
    /\ dl = "idle" /\ call = "idle" /\ srv = "idle" /\ ses = "idle"
    /\ replay \in {[archive |-> a, run |-> 1, pos |-> 1, outcome |-> <<>>] :
                      a \in SeqsUpTo(ReplayPool, MaxEntries)}

ReplayFrame ==
    UNCHANGED <<mainVars, pullVars, rtVars, pipeX, prodVars, tarVars, xRet, handed, dl, call, srv, ses>>

\* The entry is materialized and the loop goes on.
ReplayApplyOK ==
    /\ replay.run <= 2 /\ replay.pos <= Len(replay.archive)
    /\ LET r == ProcessEntry(fs, ReplayDests[replay.run], replay.archive[replay.pos])
       IN /\ r.err = ""
          /\ fs' = r.F
          /\ replay' = [replay EXCEPT !.pos = @ + 1]
    /\ ReplayFrame

\* The entry fails: processTarStream returns the error.
ReplayApplyFail ==
    /\ replay.run <= 2 /\ replay.pos <= Len(replay.archive)
    /\ LET r == ProcessEntry(fs, ReplayDests[replay.run], replay.archive[replay.pos])
       IN /\ r.err # ""
          /\ replay' = [replay EXCEPT !.outcome = Append(@, r.err), !.run = @ + 1, !.pos = 1]
    /\ UNCHANGED fs
    /\ ReplayFrame

\* tr.Next() returns io.EOF: processTarStream returns nil.
ReplayEOF ==
    /\ replay.run <= 2 /\ replay.pos > Len(replay.archive)
    /\ replay' = [replay EXCEPT !.outcome = Append(@, "nil"), !.run = @ + 1, !.pos = 1]
    /\ UNCHANGED fs
    /\ ReplayFrame

NextReplay ==
    \/ ReplayApplyOK
    \/ ReplayApplyFail
    \/ ReplayEOF

\* processTarStream on one archive, for one destination and then another.
SpecReplay == InitReplay /\ [][NextReplay]_vars

\* The tree below a destination: relative path, type, link target, mode, content.
Tree(F, D) ==
    {[rel |-> SubSeq(p, Len(D) + 1, Len(p)),
      kind |-> F.nodes[p].kind,
      target |-> F.nodes[p].target,
      mode |-> IF F.nodes[p].kind = "file" THEN F.inodes[F.nodes[p].ino].mode ELSE F.nodes[p].mode,
      data |-> IF F.nodes[p].kind = "file" THEN F.inodes[F.nodes[p].ino].data ELSE <<>>] :
        p \in {q \in DOMAIN F.nodes : Len(q) > Len(D) /\ SubSeq(q, 1, Len(D)) = D}}

\* C11: once the same archive of directories, regular files, symbolic links
\* and hard links has been replayed into two fresh destinations, the two
\* outcomes are equal and the two trees are identical.
C11_ReplayDeterministic ==
    replay.run = 3 =>
        /\ replay.outcome[1] = replay.outcome[2]
        /\ Tree(fs, ReplayDests[1]) = Tree(fs, ReplayDests[2])

\* ======================================= decodeDockerResponse: byte deltas
\* The messages of a pull stream as far as progress goes: a Downloading
\* message of a layer with its ProgressDetail.Current, or another status.
LayerIds == {"l1", "l2"}
Currents == {0, 100, 250, 400}
ProgressMsgs ==
    {[status |-> "Downloading", id |-> i, current |-> c] : i \in LayerIds, c \in Currents}
    \cup {[status |-> "Extracting", id |-> "l1", current |-> 0]}

RECURSIVE Sum(_)
Sum(q) == IF q = <<>> THEN 0 ELSE Head(q) + Sum(Tail(q))

\* A delta that counts the cumulative value again.
DeltaCumulative(bytes, last) == bytes

\* bytesChan <- (bytes - last)
Delta(bytes, last) == bytes - last

\* last, existed := layersBytesDownloaded[v.Id]; if !existed { last = 0 }
LastOf(layers, id) == IF id \in DOMAIN layers THEN layers[id] ELSE 0

InitDeltas ==
    /\ BaseIdle
    /\ fs = InitialFS
    /\ handed = NewDefaultImageInspector(<<>>, NoServeOpts)
    /\ replay = "idle" /\ call = "idle" /\ srv = "idle" /\ ses = "idle"
    /\ dl \in {[stream |-> q, seen |-> <<>>, layers |-> <<>>, sent |-> <<>>,
                bytesChan |-> <<>>, startedDownloading |-> FALSE, bytesDownloaded |-> 0] :
                  q \in SeqsUpTo(ProgressMsgs, MaxDownloads)}

DeltasFrame ==
    UNCHANGED <<mainVars, pullVars, rtVars, xVars, handed, replay, call, srv, ses>>

\* A Downloading message: the aggregator is started on the first one, the
\* layer's last value is replaced and the difference forwarded.
DlDownloading ==
    /\ dl.stream # <<>> /\ Head(dl.stream).status = "Downloading"
    /\ LET v == Head(dl.stream)
           d == Delta(v.current, LastOf(dl.layers, v.id))
       IN dl' = [dl EXCEPT !.stream = Tail(@), !.seen = Append(@, v),
                           !.layers = (v.id :> v.current) @@ @,
                           !.sent = Append(@, d),
                           !.bytesChan = Append(@, d),
                           !.startedDownloading = TRUE]
    /\ DeltasFrame

\* A message of another status: nothing is forwarded.
DlOtherStatus ==
    /\ dl.stream # <<>> /\ Head(dl.stream).status # "Downloading"
    /\ dl' = [dl EXCEPT !.stream = Tail(@), !.seen = Append(@, Head(dl.stream))]
    /\ DeltasFrame

\* aggregateBytesAndReport: bytesDownloaded += bytes
DlAggregate ==
    /\ dl.startedDownloading /\ dl.bytesChan # <<>>
    /\ dl' = [dl EXCEPT !.bytesChan = Tail(@), !.bytesDownloaded = @ + Head(dl.bytesChan)]
    /\ DeltasFrame

NextDeltas ==
    \/ DlDownloading
    \/ DlOtherStatus
    \/ DlAggregate

\* decodeDockerResponse and its aggregator over one stream of messages.
SpecDeltas == InitDeltas /\ [][NextDeltas]_vars

\* The layer ids of the Downloading messages of q, and the Current of the
\* last such message of a layer.
IdsIn(q) == {q[k].id : k \in {j \in 1..Len(q) : q[j].status = "Downloading"}}
LastIndexOf(q, id, n) ==
    IF \E j \in 1..n : q[j].status = "Downloading" /\ q[j].id = id
    THEN CHOOSE k \in 1..n :
            /\ q[k].status = "Downloading" /\ q[k].id = id
            /\ \A j \in (k + 1)..n : ~(q[j].status = "Downloading" /\ q[j].id = id)
    ELSE 0
MostRecentCurrent(q, id) == q[LastIndexOf(q, id, Len(q))].current

RECURSIVE SumOver(_, _)
SumOver(q, ids) ==
    IF ids = {} THEN 0
    ELSE LET i == CHOOSE x \in ids : TRUE
         IN MostRecentCurrent(q, i) + SumOver(q, ids \ {i})

\* The deltas the messages decoded so far call for: each Downloading
\* message's Current minus the Current of the previous one of its layer.
ExpectedDeltas(q) ==
    LET dn == {j \in 1..Len(q) : q[j].status = "Downloading"}
        nth(k) == CHOOSE j \in dn : Cardinality({i \in dn : i < j}) = k - 1
    IN [k \in 1..Cardinality(dn) |->
          LET j == nth(k)
              prev == LastIndexOf(q, q[j].id, j - 1)
          IN q[j].current - (IF prev = 0 THEN 0 ELSE q[prev].current)]

\* C12: the values forwarded are, message by message, Current minus the last
\* Current of the same layer (0 for a new layer, other layers playing no
\* part), their sum is the sum over the layers of the most recent Current,
\* and the aggregator has added up what it received of them.
C12_DeltasTelescope ==
    /\ dl.sent = ExpectedDeltas(dl.seen)
    /\ Sum(dl.sent) = SumOver(dl.seen, IdsIn(dl.seen))
    /\ dl.bytesDownloaded + Sum(dl.bytesChan) = Sum(dl.sent)

\* Current 100, 250, 400 of one layer were forwarded as 100, 150, 150.
C12_Witness ==
    /\ dl.stream = <<>> /\ dl.sent = <<100, 150, 150>>
    /\ \A k \in 1..3 : dl.seen[k].id = "l1"
    /\ dl.bytesDownloaded = 400

\* ========================================================= getAuthConfigs
\* The files a call may name: with one auth, with two, missing or
\* unparsable, and parsable without auths.
AuthCfgPaths == CfgPaths \cup {"c12", "cnoauth"}

\* The options of a call of getAuthConfigs on its own (Validate not run).
AuthInputs ==
    {[dockerCfg |-> l, username |-> u, passwordReadable |-> b, password |-> w] :
        l \in SeqsUpTo(AuthCfgPaths, MaxAuthFiles), u \in {"", "u"}, b \in BOOLEAN,
        w \in {"p1", "p2"}}

\* The state of the parts no single-function run uses.
CallIdle ==
    /\ BaseIdle
    /\ fs = InitialFS
    /\ handed = NewDefaultImageInspector(<<>>, NoServeOpts)
    /\ replay = "idle" /\ dl = "idle" /\ srv = "idle" /\ ses = "idle"

CallFrame ==
    UNCHANGED <<mainVars, pullVars, rtVars, xVars, handed, replay, dl, srv, ses>>

InitAuth ==
    /\ CallIdle
    /\ call \in {[fn |-> "getAuthConfigs", input |-> o, done |-> FALSE, err |-> FALSE,
                  result |-> <<>>] : o \in AuthInputs}

\* getAuthConfigs returns the map.
AuthReturn ==
    /\ call.fn = "getAuthConfigs" /\ ~call.done
    /\ ~GetAuthConfigs(call.input).err
    /\ call' = [call EXCEPT !.done = TRUE, !.result = GetAuthConfigs(call.input).entries]
    /\ CallFrame

\* getAuthConfigs returns nil and an error.
AuthReturnErr ==
    /\ call.fn = "getAuthConfigs" /\ ~call.done
    /\ GetAuthConfigs(call.input).err
    /\ call' = [call EXCEPT !.done = TRUE, !.err = TRUE]
    /\ CallFrame

NextAuth ==
    \/ AuthReturn
    \/ AuthReturnErr

\* One call of getAuthConfigs.
SpecAuth == InitAuth /\ [][NextAuth]_vars

\* C13: with a username the call fails when the password file cannot be
\* read and otherwise returns exactly one entry, the username with the
\* content of the password file, whatever docker-config files were named;
\* without a username it succeeds and the anonymous entry is in the result.
C13_UsernameReplacesAll ==
    call.done =>
        /\ (call.input.username # "" /\ ~call.input.passwordReadable) => call.err
        /\ (call.input.username # "" /\ call.input.passwordReadable) =>
              /\ ~call.err
              /\ Cardinality(DOMAIN call.result) = 1
              /\ \A k \in DOMAIN call.result :
                    call.result[k] = [username |-> call.input.username,
                                      password |-> call.input.password]
        /\ call.input.username = "" =>
              /\ ~call.err
              /\ AnonymousKey \in DOMAIN call.result
              /\ call.result[AnonymousKey] = NoCredentials

\* A username with two valid docker-config files gave the one entry.
C13_Witness ==
    /\ call.done /\ ~call.err
    /\ call.input.username = "u" /\ call.input.dockerCfg = <<"c1", "c2">>
    /\ DOMAIN call.result = {UserKey}

\* The number of auths the valid files among the named ones hold.
RECURSIVE AuthsOfFiles(_)
AuthsOfFiles(files) ==
    IF files = {} THEN 0
    ELSE LET f == CHOOSE x \in files : TRUE
         IN Cardinality(CfgFileAuths(f)) + AuthsOfFiles(files \ {f})

\* C14: without a username the call never fails, whatever files are
\* missing, unparsable or without auths, and the result holds the anonymous
\* entry and one entry per auth of every valid file named: one more entry
\* than those files hold auths.
C14_BadFilesSkipped ==
    (call.done /\ call.input.username = "") =>
        /\ ~call.err
        /\ AnonymousKey \in DOMAIN call.result
        /\ \A i \in 1..Len(call.input.dockerCfg) :
              \A n \in CfgFileAuths(call.input.dockerCfg[i]) :
                 \E k \in DOMAIN call.result \ {AnonymousKey} :
                    call.result[k] = [username |-> n, password |-> "stored"]
        /\ Cardinality(DOMAIN call.result) = 1 + AuthsOfFiles(Range(call.input.dockerCfg))

\* A valid file and a bad one gave two entries.
C14_Witness ==
    /\ call.done /\ ~call.err /\ call.input.username = ""
    /\ call.input.dockerCfg = <<"c1", "cbad">>
    /\ Cardinality(DOMAIN call.result) = 2

\* ======================================================== createOutputDir
\* The trees a call may find: /dst missing, an empty directory, a directory
\* with a file in it, a file, or a dangling symbolic link; /var/tmp there or
\* not.
DstKinds == {"none", "dir", "full", "file", "link"}

OutDirFS(dstKind, varTmp) ==
    LET base == (<<>> :> DirNode(493)) @@ (<<"out">> :> DirNode(493))
                @@ (<<"var">> :> DirNode(493))
        tmp == IF varTmp THEN (<<"var", "tmp">> :> DirNode(511)) ELSE <<>>
        dst == CASE dstKind = "dir" -> (<<"dst">> :> DirNode(448))
                 [] dstKind = "full" -> (<<"dst">> :> DirNode(448))
                                        @@ (<<"dst", "keep">> :> FileNode(1))
                 [] dstKind = "file" -> (<<"dst">> :> FileNode(1))
                 [] dstKind = "link" -> (<<"dst">> :> LinkNode(<<"x">>))
                 [] OTHER -> <<>>
    IN [nodes |-> dst @@ tmp @@ base,
        inodes |-> IF dstKind \in {"full", "file"}
                   THEN <<[mode |-> 420, data |-> Payload]>> ELSE <<>>]

\* The names a caller may give: none, /dst, /nodir/dst, /out, /dst/sub.
OutDirNames == DstPaths \cup {<<"out">>, <<"dst", "sub">>}

InitOutDir ==
    /\ BaseIdle
    /\ handed = NewDefaultImageInspector(<<>>, NoServeOpts)
    /\ replay = "idle" /\ dl = "idle" /\ srv = "idle" /\ ses = "idle"
    /\ \E k \in DstKinds, t \in BOOLEAN, d \in OutDirNames :
          /\ fs = OutDirFS(k, t)
          /\ call = [fn |-> "createOutputDir", input |-> [dirName |-> d, before |-> OutDirFS(k, t)],
                     done |-> FALSE, err |-> FALSE, result |-> <<>>, refused |-> FALSE]

OutDirFrame ==
    UNCHANGED <<mainVars, pullVars, rtVars, pipeX, prodVars, tarVars, xRet, handed, replay, dl, srv, ses>>

\* createOutputDir returns the directory's name.
OutDirReturn ==
    /\ call.fn = "createOutputDir" /\ ~call.done
    /\ ~CreateOutputDir(fs, call.input.dirName).err
    /\ fs' = CreateOutputDir(fs, call.input.dirName).F
    /\ call' = [call EXCEPT !.done = TRUE,
                            !.result = CreateOutputDir(fs, call.input.dirName).name]
    /\ OutDirFrame

\* The creation fails on what the tree holds: createOutputDir returns "" and
\* an error.
OutDirReturnErr ==
    /\ call.fn = "createOutputDir" /\ ~call.done
    /\ CreateOutputDir(fs, call.input.dirName).err
    /\ call' = [call EXCEPT !.done = TRUE, !.err = TRUE]
    /\ UNCHANGED fs
    /\ OutDirFrame

\* osMkdir or ioutilTempDir is refused for a reason the tree does not show
\* (permissions, no space): createOutputDir returns "" and an error.
OutDirRefused ==
    /\ call.fn = "createOutputDir" /\ ~call.done
    /\ call.input.dirName # <<>> => ~PathExists(fs, call.input.dirName)
    /\ call' = [call EXCEPT !.done = TRUE, !.err = TRUE, !.refused = TRUE]
    /\ UNCHANGED fs
    /\ OutDirFrame

NextOutDir ==
    \/ OutDirReturn
    \/ OutDirReturnErr
    \/ OutDirRefused

\* One call of createOutputDir.
SpecOutDir == InitOutDir /\ [][NextOutDir]_vars

\* Every entry of the tree F is in G as it was, with its content.
Preserved(F, G) ==
    /\ \A p \in DOMAIN F.nodes : p \in DOMAIN G.nodes /\ G.nodes[p] = F.nodes[p]
    /\ \A i \in 1..Len(F.inodes) : i <= Len(G.inodes) /\ G.inodes[i] = F.inodes[i]

\* C15: with a path, the call returns that path and no error exactly when
\* the creation of the directory succeeds or reports already-exists, and an
\* error on any other failure; without one it returns the name of the
\* directory created under /var/tmp, or an error when that creation fails.
\* Whatever was in the tree before, an existing destination and its content
\* included, is still there.
C15_OutputDirResolved ==
    call.done =>
        LET d == call.input.dirName
            mk == Mkdir(call.input.before, d, 493)
            tmp == Mkdir(call.input.before, TempDirName, 448)
        IN /\ d # <<>> =>
                /\ ~call.err <=> (~call.refused /\ mk.err \in {"", "EEXIST"})
                /\ ~call.err => call.result = d /\ PathExists(fs, d)
           /\ d = <<>> =>
                /\ ~call.err <=> (~call.refused /\ tmp.err = "")
                /\ ~call.err =>
                      /\ call.result = TempDirName
                      /\ SubSeq(call.result, 1, 2) = <<"var", "tmp">>
                      /\ call.result \notin DOMAIN call.input.before.nodes
                      /\ fs.nodes[call.result].kind = "dir"
           /\ Preserved(call.input.before, fs)

\* The destination existed with a file in it; its path came back.
C15_Witness ==
    /\ call.done /\ ~call.err
    /\ call.input.dirName = <<"dst">> /\ call.result = <<"dst">>
    /\ <<"dst", "keep">> \in DOMAIN call.input.before.nodes
    /\ <<"dst", "keep">> \in DOMAIN fs.nodes

\* ===================================================== scan and serve
\* C16: once the extraction has succeeded, the directory given to the
\* scanner, the directory the image server serves and the directory it
\* changes root to are the directory the archive was extracted into.
C16_HandedExtractedDir ==
    pc \in {"serve", "done"} =>
        /\ handed.scan # <<"none">> => handed.scan = opts.dstPath
        /\ handed.served # <<"none">> => handed.served = opts.dstPath
        /\ handed.chrootTo # <<"none">> => handed.chrootTo = opts.dstPath

\* ============================================== the end of processTarStream
\* C17: processTarStream returns nil exactly when the end-of-archive marker
\* was read with every entry of the archive applied before it. The step that
\* returns an error removes and replaces nothing that was in the tree, and
\* once processTarStream has returned, the tree and the list of applied
\* entries stay as they are.
C17_StopsAtFirstFailure ==
    [][/\ consErr' # "none" =>
             (consErr' = "nil" <=>
                 (streamEnd' \in {"eoa", "pad"} /\ Len(applied') = nItems'))
       /\ (consErr = "none" /\ consErr' \notin {"none", "nil"}) =>
             /\ applied' = applied
             /\ \A p \in DOMAIN fs.nodes :
                   p \in DOMAIN fs'.nodes /\ fs'.nodes[p] = fs.nodes[p]
       /\ consErr # "none" => (fs' = fs /\ applied' = applied)]_vars

\* The first entry was applied, the second failed, the producer offered a
\* third, and the first is still there.
C17_Witness ==
    /\ consErr \notin {"none", "nil"}
    /\ Len(applied) = 1 /\ nItems = 3
    /\ PathExists(fs, applied[1].dst)

\* ================================================= directory permissions
\* Source modes of directories: 0000, 0444, 0500, 0755.
PermModes == {0, 292, 320, 493}

\* Archives of directories and of regular files beneath them.
PermPool ==
    {[name |-> n, typ |-> "dir", mode |-> m, linkname |-> <<>>, size |-> 0] :
        n \in {<<"rootfs", "a">>, <<"rootfs", "a", "b">>}, m \in PermModes}
    \cup {[name |-> n, typ |-> "reg", mode |-> 420, linkname |-> <<>>, size |-> Len(Payload)] :
        n \in {<<"rootfs", "a", "b">>, <<"rootfs", "b">>}}

\* The owner's permission bits of a mode.
OwnerWrite(mode) == (mode \div 128) % 2 = 1
OwnerExec(mode) == (mode \div 64) % 2 = 1

\* The directories on the way to a path, the parent included.
Ancestors(F, path) ==
    {SubSeq(path, 1, k) : k \in 1..(Len(path) - 1)} \cap DOMAIN F.nodes

\* The kernel's permission check for a process that owns the tree and is not
\* the superuser: every directory on the way must be searchable, and the
\* parent writable when an entry is added to it or taken from it.
Permitted(F, path, change) ==
    /\ \A d \in Ancestors(F, path) : F.nodes[d].kind = "dir" => OwnerExec(F.nodes[d].mode)
    /\ change => (Parent(path) \in DOMAIN F.nodes => OwnerWrite(F.nodes[Parent(path)].mode))

\* One pass of the loop for a process with the given effective user: the
\* superuser passes every permission check.
ProcessEntryAs(F, destination, h, superuser) ==
    IF ~superuser /\ ~Permitted(F, DstPath(destination, h), ~PathExists(F, DstPath(destination, h)))
    THEN [err |-> "EACCES", F |-> F]
    ELSE ProcessEntry(F, destination, h)

InitPerm ==
    /\ BaseIdle
    /\ fs = ReplayFS
    /\ handed = NewDefaultImageInspector(<<>>, NoServeOpts)
    /\ dl = "idle" /\ call = "idle" /\ srv = "idle" /\ ses = "idle"
    /\ replay \in {[archive |-> a, superuser |-> u, pos |-> 1, dirs |-> {}, outcome |-> "none"] :
                      a \in SeqsUpTo(PermPool, MaxEntries), u \in BOOLEAN}

\* The entry is materialized and the loop goes on.
PermApplyOK ==
    /\ replay.outcome = "none" /\ replay.pos <= Len(replay.archive)
    /\ LET h == replay.archive[replay.pos]
           r == ProcessEntryAs(fs, ReplayDests[1], h, replay.superuser)
       IN /\ r.err = ""
          /\ fs' = r.F
          /\ replay' = [replay EXCEPT !.pos = @ + 1,
                           !.dirs = IF h.typ = "dir"
                                    THEN @ \cup {DstPath(ReplayDests[1], h)} ELSE @]
    /\ ReplayFrame

\* The entry fails: processTarStream returns the error.
PermApplyFail ==
    /\ replay.outcome = "none" /\ replay.pos <= Len(replay.archive)
    /\ LET r == ProcessEntryAs(fs, ReplayDests[1], replay.archive[replay.pos], replay.superuser)
       IN /\ r.err # ""
          /\ replay' = [replay EXCEPT !.outcome = r.err]
    /\ UNCHANGED fs
    /\ ReplayFrame

\* tr.Next() returns io.EOF: processTarStream returns nil.
PermEOF ==
    /\ replay.outcome = "none" /\ replay.pos > Len(replay.archive)
    /\ replay' = [replay EXCEPT !.outcome = "nil"]
    /\ UNCHANGED fs
    /\ ReplayFrame

NextPerm ==
    \/ PermApplyOK
    \/ PermApplyFail
    \/ PermEOF

\* processTarStream run by the superuser or by another user.
SpecPerm == InitPerm /\ [][NextPerm]_vars

\* C18: every directory an entry has materialized can be traversed by the
\* extracting process, which can also create and remove entries inside it,
\* whatever mode the entry carried.
C18_DirectoryUsable ==
    \A d \in replay.dirs :
        replay.superuser \/ Permitted(fs, Append(d, "probe"), TRUE)

\* ================================================================ Validate
\* The paths an option may name, and what os.Stat finds there: a file, a
\* directory, nothing (ENOENT), or a path that runs through a file (ENOTDIR).
ValPaths == {"", "types.go", "dir", "nosuchfile", "types.go/x"}

Stat(path) ==
    CASE path = "types.go" -> "file"
      [] path = "dir" -> "dir"
      [] path = "types.go/x" -> "ENOTDIR"
      [] OTHER -> "ENOENT"

\* os.IsNotExist
IsNotExist(st) == st = "ENOENT"

ScanOptions == {"openscap"}

\* A slice: its backing array and its length.
Values(sl) == SubSeq(sl.backing, 1, sl.len)

\* append(sl, x): with spare capacity the element is written into the
\* backing array the slice shares, otherwise into a new one.
GoAppend(sl, x) ==
    IF sl.len < Len(sl.backing)
    THEN [backing |-> [sl.backing EXCEPT ![sl.len + 1] = x], len |-> sl.len + 1]
    ELSE [backing |-> Append(Values(sl), x), len |-> sl.len + 1]

\* What the range loop of Validate leaves in the options: DockerCfg.Values
\* keeps its length, its backing array may hold the appended element.
AfterValidate(o) ==
    IF o.DockerCfg.len < Len(o.DockerCfg.backing)
    THEN [o EXCEPT !.DockerCfg.backing = GoAppend(o.DockerCfg, o.PasswordFile).backing]
    ELSE o

ValOptions ==
    [URI : {"", "unix"}, Image : {"", "image"},
     DockerCfg : {[backing |-> v \o pad, len |-> Len(v)] :
                     v \in SeqsUpTo(ValPaths, MaxCfgFiles), pad \in {<<>>, <<"">>}},
     Username : {"", "u"}, PasswordFile : {"", "types.go", "nosuchfile"},
     Serve : {"", ":8080"}, Chroot : BOOLEAN,
     ScanType : {"", "openscap", "nosuchscantype"},
     ScanResultsDir : {"", "dir", "types.go", "nosuchfile"},
     OpenScapHTML : BOOLEAN]

\* Validate: the checks in the order of the source; the first that fails
\* gives the error.
Validate(o) ==
    LET files == GoAppend(o.DockerCfg, o.PasswordFile)
    IN IF o.URI = "" THEN "ErrNoURI"
       ELSE IF o.Image = "" THEN "ErrNoImage"
       ELSE IF o.DockerCfg.len > 0 /\ o.Username # "" THEN "ErrCfgAndUsername"
       ELSE IF o.Username # "" /\ o.PasswordFile = "" THEN "ErrNoPassword"
       ELSE IF o.Serve = "" /\ o.Chroot THEN "ErrChroot"
       ELSE IF o.ScanResultsDir # "" /\ o.ScanType = "" THEN "ErrScanDirNoType"
       ELSE IF o.ScanResultsDir # "" /\ Stat(o.ScanResultsDir) = "file" THEN "ErrNotADirectory"
       ELSE IF o.OpenScapHTML /\ (o.ScanType = "" \/ o.ScanType # "openscap") THEN "ErrHTML"
       ELSE IF \E k \in 1..files.len :
                  Values(files)[k] # "" /\ IsNotExist(Stat(Values(files)[k]))
            THEN "ErrDoesNotExist"
       ELSE IF o.ScanType # "" /\ o.ScanType \notin ScanOptions THEN "ErrScanType"
       ELSE "nil"

InitValidate ==
    /\ BaseIdle
    /\ fs = InitialFS
    /\ handed = NewDefaultImageInspector(<<>>, NoServeOpts)
    /\ replay = "idle" /\ dl = "idle" /\ srv = "idle" /\ ses = "idle"
    /\ \E o \in ValOptions :
          call = [fn |-> "Validate", input |-> o, opts |-> o, done |-> FALSE, result |-> "none"]

\* Validate returns nil.
ValidateReturn ==
    /\ call.fn = "Validate" /\ ~call.done
    /\ Validate(call.opts) = "nil"
    /\ call' = [call EXCEPT !.done = TRUE, !.result = "nil", !.opts = AfterValidate(call.opts)]
    /\ UNCHANGED fs
    /\ CallFrame

\* Validate returns an error: the checks after the failing one are not made.
ValidateReturnErr ==
    /\ call.fn = "Validate" /\ ~call.done
    /\ Validate(call.opts) # "nil"
    /\ call' = [call EXCEPT !.done = TRUE, !.result = Validate(call.opts),
                            !.opts = IF Validate(call.opts) \in {"ErrDoesNotExist", "ErrScanType"}
                                     THEN AfterValidate(call.opts) ELSE call.opts]
    /\ UNCHANGED fs
    /\ CallFrame

NextValidate ==
    \/ ValidateReturn
    \/ ValidateReturnErr

\* One call of Validate.
SpecValidate == InitValidate /\ [][NextValidate]_vars

\* The file or directory of that name exists.
FileExists(path) == Stat(path) \in {"file", "dir"}

\* The conditions on the options, in any order.
ValidOptions(o) ==
    /\ o.URI # "" /\ o.Image # ""
    /\ ~(Values(o.DockerCfg) # <<>> /\ o.Username # "")
    /\ o.Username # "" => o.PasswordFile # ""
    /\ o.Chroot => o.Serve # ""
    /\ o.ScanResultsDir # "" =>
          o.ScanType # "" /\ ~(FileExists(o.ScanResultsDir) /\ Stat(o.ScanResultsDir) # "dir")
    /\ o.OpenScapHTML => o.ScanType = "openscap"
    /\ \A k \in 1..Len(Values(o.DockerCfg)) :
          Values(o.DockerCfg)[k] # "" => FileExists(Values(o.DockerCfg)[k])
    /\ o.PasswordFile # "" => FileExists(o.PasswordFile)
    /\ o.ScanType # "" => o.ScanType \in ScanOptions

\* C19: Validate returns nil exactly when the options satisfy every
\* condition, the existence of each named docker-config file and of the
\* password file included, and the options read back as they were given.
C19_ValidateNilIffValid ==
    (call.fn = "Validate" /\ call.done) =>
        /\ call.result = "nil" <=> ValidOptions(call.input)
        /\ Values(call.opts.DockerCfg) = Values(call.input.DockerCfg)
        /\ [call.opts EXCEPT !.DockerCfg = call.input.DockerCfg] = call.input

\* ============================================================= checkAuth
MaxRequests == 2

\* The token the server is configured with ("" for none), the X-Auth-Token
\* headers a request may carry (none, or the values in order), the handlers
\* ServeImage registers.
SrvTokens == {"", "t1"}
SrvHeaders == {<<>>, <<"">>, <<"t1">>, <<"t2">>, <<"t2", "t1">>}
SrvHandlers == {"healthz", "api", "metadata", "results", "scanReport", "htmlScanReport",
                "content"}

\* req.Header.Get: the first value of the header, "" without one.
HeaderGet(header) == IF header = <<>> THEN "" ELSE header[1]

\* A check that accepts whatever token a request presents.
CheckAuthAnyToken(authToken, header) ==
    IF authToken = "" THEN "next"
    ELSE IF HeaderGet(header) = "" THEN "ErrMustProvide"
    ELSE "next"

\* checkAuth: the wrapped handler runs ("next") or the reason it does not.
CheckAuth(authToken, header) ==
    IF authToken = "" THEN "next"
    ELSE IF HeaderGet(header) = "" THEN "ErrMustProvide"
    ELSE IF HeaderGet(header) # authToken THEN "ErrInvalidToken"
    ELSE "next"

InitServe ==
    /\ BaseIdle
    /\ fs = InitialFS
    /\ handed = NewDefaultImageInspector(<<>>, NoServeOpts)
    /\ replay = "idle" /\ dl = "idle" /\ call = "idle" /\ ses = "idle"
    /\ \E t \in SrvTokens : srv = [authToken |-> t, log |-> <<>>]

SrvFrame ==
    UNCHANGED <<mainVars, pullVars, rtVars, xVars, handed, replay, dl, call, ses>>

\* A request passes checkAuth: the wrapped handler runs and answers.
SrvHandled ==
    /\ Len(srv.log) < MaxRequests
    /\ \E u \in SrvHandlers, h \in SrvHeaders, st \in {200, 404, 500} :
          /\ CheckAuth(srv.authToken, h) = "next"
          /\ st # 200 => u \in {"scanReport", "htmlScanReport"}
          /\ srv' = [srv EXCEPT !.log = Append(@, [url |-> u, header |-> h, ran |-> TRUE,
                                                   status |-> st])]
    /\ SrvFrame

\* checkAuth answers 401 Unauthorized; the wrapped handler is not called.
SrvRejected ==
    /\ Len(srv.log) < MaxRequests
    /\ \E u \in SrvHandlers, h \in SrvHeaders :
          /\ CheckAuth(srv.authToken, h) # "next"
          /\ srv' = [srv EXCEPT !.log = Append(@, [url |-> u, header |-> h, ran |-> FALSE,
                                                   status |-> 401])]
    /\ SrvFrame

NextServe ==
    \/ SrvHandled
    \/ SrvRejected

\* The image server answering requests.
SpecServe == InitServe /\ [][NextServe]_vars

\* C20: with a token configured, the wrapped handler has run for a request
\* exactly when the request's X-Auth-Token header equals the token, and every
\* other request was answered 401 Unauthorized; with no token configured the
\* handler has run for every request.
C20_TokenGuardsHandlers ==
    \A k \in 1..Len(srv.log) :
        LET r == srv.log[k]
        IN /\ srv.authToken # "" =>
                /\ r.ran <=> (r.header # <<>> /\ r.header[1] = srv.authToken)
                /\ ~r.ran => r.status = 401
           /\ srv.authToken = "" => r.ran

\* A request with another token was turned away and one with the token served.
C20_Witness ==
    /\ srv.authToken = "t1"
    /\ \E j, k \in 1..Len(srv.log) :
          /\ srv.log[j].header = <<"t2">> /\ ~srv.log[j].ran /\ srv.log[j].status = 401
          /\ srv.log[k].header = <<"t1">> /\ srv.log[k].ran /\ srv.log[k].url = "content"

\* ========================================================= clamd session
MaxFiles == 2

\* NewClamdSession: the session's fields, the goroutine of the caller (it
\* walks the path in ScanPath, then calls WaitTillDone), the pollResponses
\* goroutine, and the connection: the requests clamd has not answered, the
\* responses on the wire, and whether clamd has closed it.  seen is the
\* numFilesSubmitted the poller is sure to read: the writes of the caller
\* are ordered before the poller's reads only through requestIDToFilenameMutex.
NewClamdSession(files) ==
    [allFilesSubmitted |-> FALSE, numFilesSubmitted |-> 0, numResponsesReceived |-> 0,
     seen |-> 0, closeChan |-> "open", caller |-> "ScanPath", toWalk |-> files,
     poller |-> "check", pending |-> 0, wire |-> <<>>, eof |-> FALSE, how |-> "none"]

InitSession ==
    /\ BaseIdle
    /\ fs = InitialFS
    /\ handed = NewDefaultImageInspector(<<>>, NoServeOpts)
    /\ replay = "idle" /\ dl = "idle" /\ call = "idle" /\ srv = "idle"
    /\ \E n \in 0..MaxFiles : ses = NewClamdSession(n)

SesFrame ==
    UNCHANGED <<mainVars, pullVars, rtVars, xVars, handed, replay, dl, call, srv>>

\* scanFile: the file is written to clamd and counted.
SesScanFile ==
    /\ ses.caller = "ScanPath" /\ ses.toWalk > 0 /\ ~ses.eof
    /\ ses' = [ses EXCEPT !.toWalk = @ - 1, !.numFilesSubmitted = @ + 1, !.pending = @ + 1]
    /\ SesFrame

\* scanFile fails in os.Open or conn.Write: the error is logged, the file
\* not counted.
SesScanFileFail ==
    /\ ses.caller = "ScanPath" /\ ses.toWalk > 0
    /\ ses' = [ses EXCEPT !.toWalk = @ - 1]
    /\ SesFrame

\* WaitTillDone is entered: allFilesSubmitted = true.
SesWaitTillDone ==
    /\ ses.caller = "ScanPath" /\ ses.toWalk = 0
    /\ ses' = [ses EXCEPT !.caller = "WaitTillDone", !.allFilesSubmitted = TRUE]
    /\ SesFrame

\* case <-ses.closeChan: return
SesWaitReturn ==
    /\ ses.caller = "WaitTillDone" /\ ses.closeChan = "closed"
    /\ ses' = [ses EXCEPT !.caller = "returned"]
    /\ SesFrame

\* clamd answers a request, with a response of the expected form or not.
ClamdRespond ==
    /\ ses.pending > 0 /\ ~ses.eof
    /\ \E r \in {"result", "garbage"} :
          ses' = [ses EXCEPT !.pending = @ - 1, !.wire = Append(@, r)]
    /\ SesFrame

\* clamd closes the connection.
ClamdClose ==
    /\ ~ses.eof
    /\ ses' = [ses EXCEPT !.eof = TRUE, !.pending = 0]
    /\ SesFrame

\* The values the unsynchronized reads of the poller may give: the caller's
\* writes need not have reached it.
ReadNumFilesSubmitted == ses.seen..ses.numFilesSubmitted
ReadAllFilesSubmitted == {ses.allFilesSubmitted, FALSE}

\* The loop condition of pollResponses holds for what the poller reads: it
\* returns, and the deferred close(closeChan) runs.
PollReturn ==
    /\ ses.poller = "check"
    /\ \E a \in ReadAllFilesSubmitted, n \in ReadNumFilesSubmitted :
          /\ a /\ n = ses.numResponsesReceived
          /\ ses' = [ses EXCEPT !.poller = "done", !.closeChan = "closed",
                                !.how = IF n = ses.numFilesSubmitted THEN "counts" ELSE "stale"]
    /\ SesFrame

\* The loop condition does not hold for what the poller reads: conn.Read.
PollGoRead ==
    /\ ses.poller = "check"
    /\ \E a \in ReadAllFilesSubmitted, n \in ReadNumFilesSubmitted :
          ~(a /\ n = ses.numResponsesReceived)
    /\ ses' = [ses EXCEPT !.poller = "Read"]
    /\ SesFrame

\* The responses of a prefix of q that carry a request id.
RECURSIVE Counted(_)
Counted(q) ==
    IF q = <<>> THEN 0 ELSE (IF Head(q) = "result" THEN 1 ELSE 0) + Counted(Tail(q))

\* conn.Read returns a buffer of one or more responses; handleResponse counts
\* each one that carries a request id, under the mutex.
PollHandleResponses ==
    /\ ses.poller = "Read" /\ ses.wire # <<>>
    /\ \E k \in 1..Len(ses.wire) :
          ses' = [ses EXCEPT !.wire = SubSeq(@, k + 1, Len(@)),
                             !.numResponsesReceived = @ + Counted(SubSeq(ses.wire, 1, k)),
                             !.seen = IF Counted(SubSeq(ses.wire, 1, k)) > 0
                                      THEN ses.numFilesSubmitted ELSE @,
                             !.poller = "check"]
    /\ SesFrame

\* conn.Read times out, or fails with an error other than io.EOF: continue.
PollReadAgain ==
    /\ ses.poller = "Read" /\ ses.wire = <<>> /\ ~ses.eof
    /\ ses' = [ses EXCEPT !.poller = "check"]
    /\ SesFrame

\* conn.Read returns io.EOF: pollResponses returns, closeChan is closed.
PollEOF ==
    /\ ses.poller = "Read" /\ ses.wire = <<>> /\ ses.eof
    /\ ses' = [ses EXCEPT !.poller = "done", !.closeChan = "closed", !.how = "EOF"]
    /\ SesFrame

NextSession ==
    \/ SesScanFile
    \/ SesScanFileFail
    \/ SesWaitTillDone
    \/ SesWaitReturn
    \/ ClamdRespond
    \/ ClamdClose
    \/ PollReturn
    \/ PollGoRead
    \/ PollHandleResponses
    \/ PollReadAgain
    \/ PollEOF

\* A clamd session from NewClamdSession to the return of WaitTillDone.
SpecSession == InitSession /\ [][NextSession]_vars

\* C21: when WaitTillDone has returned, as many responses have been received
\* as files were submitted.
C21_DoneAfterAllResponses ==
    ses.caller = "returned" => ses.numResponsesReceived = ses.numFilesSubmitted

\* ============================================================== scanImage
\* What ioutil.ReadFile finds at a results file: its bytes, or an error.
ResultFiles ==
    {[ok |-> FALSE, data |-> <<>>]} \cup {[ok |-> TRUE, data |-> d] : d \in {<<>>, <<1>>, <<2>>}}

ScanInputs ==
    [scanFails : BOOLEAN, results : ResultFiles, html : ResultFiles, OpenScapHTML : BOOLEAN]

\* A scanImage that returns the HTML report whatever reading it gave.
ScanImageHTMLUnchecked(in) ==
    IF in.scanFails THEN [err |-> "ErrRun", report |-> <<>>, html |-> <<>>]
    ELSE IF ~in.results.ok THEN [err |-> "ErrReadResults", report |-> <<>>, html |-> <<>>]
    ELSE [err |-> "nil", report |-> in.results.data,
          html |-> IF in.OpenScapHTML THEN in.html.data ELSE <<>>]

\* scanImage: s.Scan, then the results file, then the HTML results file when
\* the options ask for it.
ScanImage(in) ==
    IF in.scanFails THEN [err |-> "ErrRun", report |-> <<>>, html |-> <<>>]
    ELSE IF ~in.results.ok THEN [err |-> "ErrReadResults", report |-> <<>>, html |-> <<>>]
    ELSE IF in.OpenScapHTML /\ ~in.html.ok
         THEN [err |-> "ErrReadHTML", report |-> <<>>, html |-> <<>>]
    ELSE [err |-> "nil", report |-> in.results.data,
          html |-> IF in.OpenScapHTML THEN in.html.data ELSE <<>>]

InitScan ==
    /\ BaseIdle
    /\ fs = InitialFS
    /\ handed = NewDefaultImageInspector(<<>>, NoServeOpts)
    /\ replay = "idle" /\ dl = "idle" /\ srv = "idle" /\ ses = "idle"
    /\ \E in \in ScanInputs :
          call = [fn |-> "scanImage", input |-> in, done |-> FALSE,
                  result |-> [err |-> "none", report |-> <<>>, html |-> <<>>]]

\* scanImage returns the reports.
ScanReturn ==
    /\ call.fn = "scanImage" /\ ~call.done
    /\ ScanImage(call.input).err = "nil"
    /\ call' = [call EXCEPT !.done = TRUE, !.result = ScanImage(call.input)]
    /\ UNCHANGED fs
    /\ CallFrame

\* scanImage returns an error and two empty reports.
ScanReturnErr ==
    /\ call.fn = "scanImage" /\ ~call.done
    /\ ScanImage(call.input).err # "nil"
    /\ call' = [call EXCEPT !.done = TRUE, !.result = ScanImage(call.input)]
    /\ UNCHANGED fs
    /\ CallFrame

NextScan ==
    \/ ScanReturn
    \/ ScanReturnErr

\* One call of scanImage.
SpecScan == InitScan /\ [][NextScan]_vars

\* C22: scanImage returns an error exactly when Scan fails, the results file
\* cannot be read, or the HTML report is asked for and its file cannot be
\* read; otherwise the report is the content of the results file and, when
\* asked for, the HTML report is the content of the HTML results file.
C22_ScanImageResult ==
    (call.fn = "scanImage" /\ call.done) =>
        LET in == call.input
        IN /\ call.result.err # "nil" <=>
                (in.scanFails \/ ~in.results.ok \/ (in.OpenScapHTML /\ ~in.html.ok))
           /\ call.result.err = "nil" =>
                /\ call.result.report = in.results.data
                /\ in.OpenScapHTML => call.result.html = in.html.data

\* Both reports were asked for and returned, each with its own content.
C22_Witness ==
    /\ call.fn = "scanImage" /\ call.done /\ call.result.err = "nil"
    /\ call.input.OpenScapHTML
    /\ call.result.report = <<1>> /\ call.result.html = <<2>>

\* ===================================================== one attempt in flight
\* C23: when the PullImage call of an attempt has started, the PullImage call
\* of the attempt before it has returned and that attempt's decoder has
\* finished.
C23_OneAttemptInFlight ==
    \A k \in 1..(Len(att) - 1) :
        att[k + 1].puller # "start" =>
            /\ att[k].puller \in {"senderr", "deferred", "done"}
            /\ att[k].decoder = "done"

\* ================================================ the judgement of an attempt
\* C24: the step in which pullImage takes the value of parsedErrors either
\* returns nil, and then the attempt's PullImage call returned no error, its
\* stream carried no Error message and nothing malformed, and the decoder
\* has read it to the end; or it goes on with the loop, and then the stream
\* carried such a message or PullImage returned an error, and neither
\* pullImage nor Inspect has returned.
C24_JudgedOnTheStream ==
    [][(pc = "pullRecv" /\ pc' # "pullRecv") =>
          LET a == att[Len(att)]
          IN IF pullRet' = "nil"
             THEN /\ a.result = "ok" /\ ~a.bad
                  /\ a.readerClosed /\ a.decoder = "done" /\ a.pipe = "none"
             ELSE /\ a.bad \/ a.result = "err"
                  /\ pc' = "pullLoop" /\ pullRet' = "none" /\ ret' = "none"]_vars

\* The first attempt failed on a message of its stream while its PullImage
\* call reported no error; the second was judged successful.
C24_Witness ==
    /\ pullRet = "nil" /\ Len(att) = 2
    /\ att[1].bad /\ att[1].result # "err"
    /\ att[2].result = "ok" /\ ~att[2].bad

\* ============================ decodeDockerResponse and its progress aggregator
\* The capacity of bytesChan (100 in the source), the number of ticks of the
\* ticker that are followed, and the values of ProgressDetail.Current.
BytesChanCap == 2
MaxTicks == 2
AggCurrents == {0, 1024, 3000}
AggMsgs ==
    {[status |-> "Downloading", id |-> i, current |-> c] : i \in LayerIds, c \in AggCurrents}
    \cup {[status |-> "Extracting", id |-> "l1", current |-> 0]}

\* A decoder that starts an aggregator at every Downloading message.
ShouldStartAlways(startedDownloading) == TRUE

\* A decoder that never starts the aggregator.
ShouldStartNever(startedDownloading) == FALSE

\* if !startedDownloading { go aggregateBytesAndReport(bytesChan) ... }
ShouldStart(startedDownloading) == ~startedDownloading

\* log.Printf("... (%dKb downloaded)", bytesDownloaded/1024)
Kb(bytesDownloaded) == bytesDownloaded \div 1024

\* The decoder at the top of its loop over the stream, no aggregator, an
\* empty open bytesChan.
InitAgg ==
    /\ BaseIdle
    /\ fs = InitialFS
    /\ handed = NewDefaultImageInspector(<<>>, NoServeOpts)
    /\ replay = "idle" /\ call = "idle" /\ srv = "idle" /\ ses = "idle"
    /\ dl \in {[stream |-> q, dec |-> "decoding", value |-> 0, layers |-> <<>>,
                sent |-> <<>>, bytesChan |-> <<>>, closed |-> FALSE,
                startedDownloading |-> FALSE, starts |-> 0, agg |-> "idle",
                bytesDownloaded |-> 0, ticks |-> 0, log |-> <<>>] :
                  q \in SeqsUpTo(AggMsgs, MaxDownloads)}

\* A Downloading message: the aggregator is started if none was, the
\* layer's value replaced, and the decoder goes on to send the difference.
AggDecDownloading ==
    /\ dl.dec = "decoding"
    /\ dl.stream # <<>> /\ Head(dl.stream).status = "Downloading"
    /\ LET v == Head(dl.stream)
           go == ShouldStart(dl.startedDownloading)
       IN dl' = [dl EXCEPT !.stream = Tail(@),
                           !.starts = IF go THEN @ + 1 ELSE @,
                           !.agg = IF go THEN "reporting" ELSE @,
                           !.startedDownloading = IF go THEN TRUE ELSE @,
                           !.layers = (v.id :> v.current) @@ @,
                           !.value = Delta(v.current, LastOf(dl.layers, v.id)),
                           !.dec = "sending"]
    /\ DeltasFrame

\* bytesChan <- (bytes - last): goes through when the channel has room.
AggDecSend ==
    /\ dl.dec = "sending"
    /\ Len(dl.bytesChan) < BytesChanCap
    /\ dl' = [dl EXCEPT !.bytesChan = Append(@, dl.value),
                        !.sent = Append(@, dl.value),
                        !.dec = "decoding"]
    /\ DeltasFrame

\* A message of another status: nothing is started or forwarded.
AggDecOther ==
    /\ dl.dec = "decoding"
    /\ dl.stream # <<>> /\ Head(dl.stream).status # "Downloading"
    /\ dl' = [dl EXCEPT !.stream = Tail(@)]
    /\ DeltasFrame

\* Decode fails (end of the stream, closed pipe, malformed message) or the
\* message carries an Error: break, and the deferred close(bytesChan).
AggDecBreak ==
    /\ dl.dec = "decoding"
    /\ dl' = [dl EXCEPT !.stream = IF @ = <<>> THEN @ ELSE Tail(@),
                        !.dec = "exited", !.closed = TRUE]
    /\ DeltasFrame

\* case bytes, open := <-bytesChan with a value: bytesDownloaded += bytes
AggRecv ==
    /\ dl.agg = "reporting" /\ dl.bytesChan # <<>>
    /\ dl' = [dl EXCEPT !.bytesChan = Tail(@),
                        !.bytesDownloaded = @ + Head(dl.bytesChan)]
    /\ DeltasFrame

\* case bytes, open := <-bytesChan on the closed and drained channel: the
\* final line is logged and the goroutine returns.
AggClosed ==
    /\ dl.agg = "reporting" /\ dl.bytesChan = <<>> /\ dl.closed
    /\ dl' = [dl EXCEPT !.agg = "stopped",
                        !.log = Append(@, [line |-> "Finished Downloading Image",
                                           kb |-> Kb(dl.bytesDownloaded)])]
    /\ DeltasFrame

\* case <-ticker.C: the periodic line is logged.
AggTick ==
    /\ dl.agg = "reporting" /\ dl.ticks < MaxTicks
    /\ dl' = [dl EXCEPT !.ticks = @ + 1,
                        !.log = Append(@, [line |-> "Downloading Image",
                                           kb |-> Kb(dl.bytesDownloaded)])]
    /\ DeltasFrame

NextAgg ==
    \/ AggDecDownloading
    \/ AggDecSend
    \/ AggDecOther
    \/ AggDecBreak
    \/ AggRecv
    \/ AggClosed
    \/ AggTick

\* The decoder of one attempt and the aggregator it starts. Both are
\* goroutines that the scheduler keeps running: a send on a channel with
\* room goes through, and select picks among its ready cases at random, so
\* that a ready receive from bytesChan is not put off forever by the
\* ticker. When the stream yields its next message is left open.
SpecAgg ==
    /\ InitAgg /\ [][NextAgg]_vars
    /\ WF_vars(AggDecSend) /\ WF_vars(AggRecv) /\ WF_vars(AggClosed)

Finals(log) == {k \in 1..Len(log) : log[k].line = "Finished Downloading Image"}

\* C25: the aggregator goes idle -> reporting -> stopped and never back; it
\* is started at most once and only by a Downloading message; all it logs
\* it logs while running, the final line at most once and as the last line,
\* with the sum of the forwarded deltas; stopped, it logs nothing more; and
\* once the decoder has exited and closed bytesChan, a started aggregator
\* comes to have logged the final line with that sum and to have stopped.
C25_AggregatorLifeCycle ==
    /\ [](/\ dl.starts <= 1
          /\ dl.agg = "idle" <=> dl.starts = 0
          /\ dl.agg = "idle" => dl.log = <<>> /\ dl.bytesDownloaded = 0
          /\ Cardinality(Finals(dl.log)) = (IF dl.agg = "stopped" THEN 1 ELSE 0)
          /\ dl.agg = "stopped" =>
                /\ dl.closed /\ dl.bytesChan = <<>>
                /\ dl.bytesDownloaded = Sum(dl.sent)
                /\ dl.log[Len(dl.log)] =
                      [line |-> "Finished Downloading Image", kb |-> Kb(Sum(dl.sent))])
    /\ [][/\ dl'.starts > dl.starts =>
                dl.dec = "decoding" /\ Head(dl.stream).status = "Downloading"
          /\ dl.agg = "reporting" => dl'.agg # "idle"
          /\ dl.agg = "stopped" => dl'.agg = "stopped" /\ dl'.log = dl.log]_vars
    /\ (dl.closed /\ dl.starts > 0) ~>
          (dl.agg = "stopped" /\ Cardinality(Finals(dl.log)) = 1)

\* Three deltas went through a channel of lesser capacity, periodic lines
\* were logged on the way, and the final line carries their sum.
C25_Witness ==
    /\ dl.agg = "stopped" /\ Len(dl.sent) > BytesChanCap
    /\ dl.ticks > 0 /\ Len(dl.log) = dl.ticks + 1
    /\ dl.log[Len(dl.log)].kb > 0

\* C26: whenever the decoder is at its send on bytesChan an aggregator has
\* been started and has not stopped, the channel is open, and the send
\* comes to go through, whatever the number of values sent before it.
C26_SendGoesThrough ==
    /\ [](dl.dec = "sending" => dl.agg = "reporting" /\ ~dl.closed)
    /\ (dl.dec = "sending") ~> (dl.dec # "sending")

\* The decoder stands at a send with the channel full of the values sent
\* before it.
C26_Witness ==
    /\ dl.dec = "sending" /\ dl.agg = "reporting"
    /\ Len(dl.bytesChan) = BytesChanCap /\ Len(dl.sent) = BytesChanCap

\* ================================================ the end of the extraction
\* C27: when processTarStream has returned and DownloadFromContainer stands
\* in a Write on the pipe that nothing has read, the extraction can still
\* move on: some step of the copy or of createAndExtractImage is possible.
C27_ProducerReleased ==
    (pc = "recvErr" /\ prod = "copying" /\ pipeX # NoItem) => ENABLED NextExtract

\* C28: once handleTarStream has returned and createAndExtractImage has the
\* result of the extraction, that result is "Unable to extract container"
\* when DownloadFromContainer returned an error and nil when it did not,
\* whatever processTarStream returned; and what processTarStream returned,
\* when not nil (an entry that could not be materialized, a stream that
\* could not be read), has been logged.
C28_ResultIsTheProducers ==
    /\ (consErr \notin {"none", "nil"}) => consErr \in logged
    /\ (consErr # "none" /\ xRet # "none") =>
          /\ prodResult \in {"ok", "err"}
          /\ prodResult = "err" <=> xRet = "ErrExtract"
          /\ prodResult = "ok" <=> xRet = "nil"

\* The stream could not be read as tar, which was logged, the copy reported
\* no error, and nil was returned; Inspect went on.
C28_Witness ==
    /\ consErr = "ErrTarRead" /\ "ErrTarRead" \in logged
    /\ prodResult = "ok" /\ xRet = "nil" /\ pc = "postExtract"

\* C29: the step in which the deferred RemoveContainer runs and
\* createAndExtractImage returns leaves the result as it stood before the
\* call, and Inspect goes on, or returns that error, by that result alone,
\* whether the removal succeeded or failed.
C29_RemovalOutcomeIgnored ==
    [][(pc = "remove" /\ pc' # "remove") =>
          /\ xRet' = xRet /\ xRet # "none"
          /\ rtCalls'[Len(rtCalls')].op \in {"RemoveContainer", "RemoveContainerFailed"}
          /\ IF xRet = "nil"
             THEN pc' = "postExtract" /\ ret' = ret
             ELSE pc' = "done" /\ ret' = xRet]_vars

\* The removal failed after an extraction without error, and Inspect went on
\* to its next phase with nil.
C29_Witness ==
    /\ rtCalls # <<>> /\ rtCalls[Len(rtCalls)].op = "RemoveContainerFailed"
    /\ xRet = "nil" /\ pc = "postExtract" /\ ret = "none"

\* ==================================================== the phases of Inspect
\* Inspect called without credentials, or with a password file that cannot
\* be read, the image not yet pulled, for a destination that can be created
\* and one that cannot.
InitPhases ==
    /\ pc = "NewClient"
    /\ ret = "none"
    /\ \E o \in PullOpts, d \in DstPaths \ {<<>>}, so \in ServeOpts :
          /\ o.dockerCfg = <<>> /\ (o.username # "" => ~o.passwordReadable)
          /\ opts = [dockerCfg |-> o.dockerCfg, username |-> o.username,
                     passwordReadable |-> o.passwordReadable, password |-> o.password,
                     dstPath |-> d]
          /\ handed = NewDefaultImageInspector(d, so)
    /\ imagePresent = FALSE
    /\ configs = {}
    /\ tried = <<>>
    /\ att = <<>>
    /\ pullRet = "none"
    /\ rtCalls = <<>>
    /\ panicked = FALSE
    /\ InitExtraction
    /\ AuxIdle

\* Inspect from its call to its return.
SpecPhases == InitPhases /\ [][Next]_vars

\* The phase a position of Inspect belongs to, and the phase a call on the
\* docker client belongs to.
PhaseOf(p) ==
    CASE p \in {"NewClient", "pullImage", "pullLoop", "pullRecv"} -> 1
      [] p \in {"genName", "create"} -> 2
      [] p \in {"inspectC", "inspectI"} -> 3
      [] p = "mkOut" -> 4
      [] p \in {"startCopy", "tarNext", "tarApply", "tarCopy", "recvErr", "remove"} -> 5
      [] p = "postExtract" -> 6
      [] p = "serve" -> 7
      [] OTHER -> 8
PhaseOfCall(op) ==
    CASE op = "PullImage" -> 1
      [] op \in {"CreateContainer", "CreateContainerFailed"} -> 2
      [] op \in {"InspectContainer", "InspectImage"} -> 3
      [] op = "DownloadFromContainer" -> 5
      [] OTHER -> 8

\* C30: Inspect moves from a phase to the next one only, or to its return
\* (through the deferred removal of the container); the docker client
\* receives its calls in the order of the phases; when the pull has failed
\* no container is created; when the creation of the container or one of
\* the inspections has failed the file system is as it was, the destination
\* directory not created, and nothing is copied out; when the extraction
\* returned an error nothing is scanned or served; and Inspect returns its
\* first error, after which nothing changes.
C30_PhasesInOrder ==
    /\ [](/\ \A j, k \in 1..Len(rtCalls) :
                j < k => PhaseOfCall(rtCalls[j].op) <= PhaseOfCall(rtCalls[k].op)
          /\ pullRet \notin {"none", "nil"} =>
                /\ CallsOf({"CreateContainer", "CreateContainerFailed"}) = {}
                /\ ret = pullRet /\ pc = "done"
          /\ PhaseOf(pc) \in 2..7 => pullRet = "nil"
          /\ xRet \in {"ErrCreate", "ErrInspectContainer", "ErrInspectImage"} =>
                /\ fs = InitialFS /\ ~PathExists(fs, opts.dstPath)
                /\ CallsOf({"DownloadFromContainer"}) = {}
          /\ fs # InitialFS => CallsOf({"InspectImage"}) # {}
          /\ CallsOf({"DownloadFromContainer"}) # {} => fs # InitialFS
          /\ xRet \notin {"none", "nil"} =>
                /\ handed.scan = <<"none">> /\ handed.served = <<"none">>
                /\ handed.chrootTo = <<"none">>
                /\ pc \in {"remove", "done"}
          /\ (handed.served # <<"none">> /\ handed.scanType = "openscap") =>
                handed.scan # <<"none">>
          /\ ret # "none" <=> pc = "done")
    /\ [][/\ PhaseOf(pc') >= PhaseOf(pc)
          /\ pc' \notin {"remove", "done"} => PhaseOf(pc') <= PhaseOf(pc) + 1
          /\ pc = "done" => pc' = "done" /\ ret' = ret /\ fs' = fs /\ handed' = handed
                            /\ Len(rtCalls') = Len(rtCalls)]_vars

\* A run through every phase: the image pulled, the container created and
\* inspected, the destination created, an entry extracted, the scanner and
\* then the server given the directory.
C30_Witness ==
    /\ pc = "done" /\ ret = "ErrServe"
    /\ PullCalls = 1 /\ ContainerCreated /\ RemoveCalls = 1
    /\ Len(applied) >= 1
    /\ handed.scan # <<"none">> /\ handed.served # <<"none">>

\* ================================================= processTarStream alone
\* Entry names with and without the prefix, with the prefix twice, with a
\* ".." component, and the name of a file the destination already holds.
UntarNames ==
    {<<"rootfs", "a">>, <<"rootfs", "a", "b">>, <<"b">>, <<"rootfs", "rootfs">>,
     <<"rootfs", "old">>, <<"rootfs", "..", "x">>}
UntarDirModes == {0, 292, 493}                       \* 0000, 0444, 0755
UntarFileModes == {292, 420}                         \* 0444, 0644
UntarLinkNames == {<<"rootfs", "a">>, <<"rootfs", "old">>}

UntarPool ==
    {[name |-> n, typ |-> "dir", mode |-> m, linkname |-> <<>>, size |-> 0] :
        n \in UntarNames, m \in UntarDirModes}
    \cup {[name |-> n, typ |-> "reg", mode |-> m, linkname |-> <<>>, size |-> Len(Payload)] :
        n \in UntarNames, m \in UntarFileModes}
    \cup {[name |-> n, typ |-> "symlink", mode |-> 511, linkname |-> t, size |-> 0] :
        n \in UntarNames, t \in SymTargets}
    \cup {[name |-> n, typ |-> "link", mode |-> 0, linkname |-> l, size |-> 0] :
        n \in UntarNames, l \in UntarLinkNames}
    \cup {[name |-> n, typ |-> "fifo", mode |-> 420, linkname |-> <<>>, size |-> 0] :
        n \in UntarNames}

\* The destination: a directory that existed before, with one file in it.
UntarRoot == <<"d1">>
UntarOld == <<"d1", "old">>
UntarFS ==
    [nodes |-> (UntarRoot :> DirNode(493)) @@ (UntarOld :> FileNode(1)) @@ InitialFS.nodes,
     inodes |-> <<[mode |-> 384, data |-> <<9, 9, 9>>]>>]

InitUntar ==
    /\ BaseIdle
    /\ fs = UntarFS
    /\ handed = NewDefaultImageInspector(<<>>, NoServeOpts)
    /\ dl = "idle" /\ call = "idle" /\ srv = "idle" /\ ses = "idle"
    /\ replay \in {[archive |-> a, pos |-> 1, outcome |-> "none"] :
                      a \in SeqsUpTo(UntarPool, MaxEntries)}

\* The header the loop is at.
UntarHdr == replay.archive[replay.pos]

\* The entry is materialized and the loop goes on.
UntarApplyOK ==
    /\ replay.outcome = "none" /\ replay.pos <= Len(replay.archive)
    /\ ProcessEntry(fs, UntarRoot, UntarHdr).err = ""
    /\ fs' = ProcessEntry(fs, UntarRoot, UntarHdr).F
    /\ replay' = [replay EXCEPT !.pos = @ + 1]
    /\ ReplayFrame

\* The entry fails: processTarStream returns the error.
UntarApplyFail ==
    /\ replay.outcome = "none" /\ replay.pos <= Len(replay.archive)
    /\ ProcessEntry(fs, UntarRoot, UntarHdr).err # ""
    /\ replay' = [replay EXCEPT !.outcome = ProcessEntry(fs, UntarRoot, UntarHdr).err]
    /\ UNCHANGED fs
    /\ ReplayFrame

\* tr.Next() returns io.EOF: processTarStream returns nil.
UntarEOF ==
    /\ replay.outcome = "none" /\ replay.pos > Len(replay.archive)
    /\ replay' = [replay EXCEPT !.outcome = "nil"]
    /\ UNCHANGED fs
    /\ ReplayFrame

NextUntar ==
    \/ UntarApplyOK
    \/ UntarApplyFail
    \/ UntarEOF

\* processTarStream over one archive into a destination that existed.
SpecUntar == InitUntar /\ [][NextUntar]_vars

\* The step that materializes the header the loop is at.
UntarApplied == replay.outcome = "none" /\ replay'.pos = replay.pos + 1

\* The place a path names, the last component not followed.
PlaceOf(F, path) == Lookup(F, path, FALSE).path

\* The entry name without one leading "rootfs/", as components after the root.
StrippedName(name) ==
    IF Len(name) >= 2 /\ name[1] = "rootfs" THEN SubSeq(name, 2, Len(name)) ELSE name

\* C31: when an entry has been materialized, what it made is found at the
\* destination root joined with the entry name less one leading "rootfs/":
\* a directory or a file there; for a symbolic link, a link there whose
\* target is the header's link name as it stands; for a hard link, a second
\* name there of what is at the root joined with the header's link name
\* less one leading "rootfs/"; and nothing is created anywhere else.
C31_WhereEntriesGo ==
    [][UntarApplied =>
          LET h == UntarHdr
              dst == PathJoin(UntarRoot, StrippedName(h.name))
          IN /\ dst = DstPath(UntarRoot, h)
             /\ h.typ \in {"dir", "reg"} => Resolves(fs', dst)
             /\ h.typ = "reg" => DataAt(fs', dst) = Payload
             /\ h.typ = "symlink" =>
                   /\ PlaceOf(fs, dst) \notin DOMAIN fs.nodes
                   /\ fs'.nodes[PlaceOf(fs, dst)] = LinkNode(h.linkname)
             /\ h.typ = "link" =>
                   LET old == PathJoin(UntarRoot, StrippedName(h.linkname))
                   IN /\ PlaceOf(fs, old) \in DOMAIN fs.nodes
                      /\ PlaceOf(fs, dst) \notin DOMAIN fs.nodes
                      /\ fs'.nodes[PlaceOf(fs, dst)] = fs.nodes[PlaceOf(fs, old)]
             /\ h.typ = "fifo" => fs' = fs
             /\ DOMAIN fs'.nodes \ DOMAIN fs.nodes \subseteq
                   {PlaceOf(fs, dst), Lookup(fs, dst, TRUE).path}]_vars

\* A name with the prefix twice kept one of them; a symbolic link with an
\* absolute target and a hard link to the file the destination held were
\* made beside it.
C31_Witness ==
    /\ replay.outcome = "nil" /\ Len(replay.archive) = 3
    /\ <<"d1", "rootfs">> \in DOMAIN fs.nodes
    /\ <<"d1", "a">> \in DOMAIN fs.nodes /\ fs.nodes[<<"d1", "a">>] = LinkNode(<<"", "out">>)
    /\ <<"d1", "b">> \in DOMAIN fs.nodes /\ fs.nodes[<<"d1", "b">>] = fs.nodes[UntarOld]

\* The header the loop is at is a hard link, and the step deals with it.
UntarLinkStep ==
    /\ replay.outcome = "none" /\ replay.pos <= Len(replay.archive)
    /\ UntarHdr.typ = "link"
    /\ replay' # replay

\* An earlier entry of the stream was materialized at the path the hard
\* link names as its target.
TargetSeenEarlier ==
    \E k \in 1..(replay.pos - 1) :
        /\ replay.archive[k].typ # "fifo"
        /\ DstPath(UntarRoot, replay.archive[k]) = LinkTarget(UntarRoot, UntarHdr)

\* C32 as stated: a hard-link entry whose target no earlier entry of the
\* stream has materialized fails: the replay ends with the error of the
\* link at that entry and nothing is created.
C32_UnseenTargetFails ==
    [][(UntarLinkStep /\ ~TargetSeenEarlier) =>
          replay'.outcome = "ErrLink" /\ fs' = fs]_vars

\* C32, amended: a hard-link entry whose target path names nothing in the
\* file system when the entry is processed fails: the replay ends with the
\* error of the link at that entry, nothing is created, and no later entry
\* is processed, whether or not one would have created the target. A target
\* that is there, a file or a symbolic link, is linked when the new name is
\* free, whether an earlier entry made it or not.
C32_MissingTargetFails ==
    [][/\ UntarLinkStep =>
             LET old == Lookup(fs, LinkTarget(UntarRoot, UntarHdr), FALSE)
                 new == Lookup(fs, DstPath(UntarRoot, UntarHdr), FALSE)
                 there == old.err = "" /\ old.path \in DOMAIN fs.nodes
             IN /\ ~there => replay'.outcome = "ErrLink" /\ fs' = fs
                /\ (/\ there /\ fs.nodes[old.path].kind # "dir"
                    /\ new.err = "" /\ new.path \notin DOMAIN fs.nodes) =>
                      /\ replay'.outcome = "none" /\ replay'.pos = replay.pos + 1
                      /\ fs'.nodes[new.path] = fs.nodes[old.path]
       /\ replay.outcome # "none" => fs' = fs /\ replay' = replay]_vars

\* A hard link to rootfs/a came first and failed; the regular file rootfs/a
\* that follows it in the stream was never reached.
C32_Witness ==
    /\ replay.outcome = "ErrLink" /\ replay.pos = 1 /\ Len(replay.archive) = 2
    /\ replay.archive[1].typ = "link" /\ replay.archive[1].linkname = <<"rootfs", "a">>
    /\ replay.archive[2].typ = "reg" /\ replay.archive[2].name = <<"rootfs", "a">>
    /\ fs = UntarFS

\* Bit k of a mode (bit 8 is owner read, bit 7 owner write).
ModeBit(mode, k) == (mode \div (2 ^ k)) % 2 = 1

\* The mode is the header's with the owner's read and write bits set.
AugmentedMode(mode, h) ==
    \A k \in 0..8 : ModeBit(mode, k) <=> (ModeBit(h.mode, k) \/ k \in {7, 8})

\* The step deals with a directory or regular-file header.
UntarStepAt(typ) ==
    /\ replay.outcome = "none" /\ replay.pos <= Len(replay.archive)
    /\ UntarHdr.typ = typ
    /\ replay' # replay

\* C33 as stated, its last part: a regular-file entry whose path already
\* exists is not rejected: the replay goes on and the path holds the payload.
C33_ExistingPathRewritten ==
    [][(UntarStepAt("reg") /\ PathExists(fs, DstPath(UntarRoot, UntarHdr))) =>
          /\ replay'.outcome = "none"
          /\ DataAt(fs', DstPath(UntarRoot, UntarHdr)) = Payload]_vars

\* C33, amended: a directory or regular file that an entry creates has the
\* header's mode with the owner's read and write bits set and no other bit
\* changed, and so has an existing path a directory entry re-modes; a
\* regular-file entry whose path resolves to a regular file truncates and
\* rewrites it and leaves its mode alone; one whose path resolves to a
\* directory is rejected with the error of the open and changes nothing.
C33_ModesAndRewrites ==
    [][/\ (UntarStepAt("dir") /\ replay'.outcome = "none") =>
             AugmentedMode(ModeAt(fs', DstPath(UntarRoot, UntarHdr)), UntarHdr)
       /\ UntarStepAt("reg") =>
             LET dst == DstPath(UntarRoot, UntarHdr)
             IN IF ~Resolves(fs, dst)
                THEN replay'.outcome = "none" =>
                        /\ AugmentedMode(ModeAt(fs', dst), UntarHdr)
                        /\ DataAt(fs', dst) = Payload
                ELSE IF fs.nodes[Lookup(fs, dst, TRUE).path].kind = "dir"
                THEN replay'.outcome = "ErrCreateFile" /\ fs' = fs
                ELSE /\ replay'.outcome = "none"
                     /\ DataAt(fs', dst) = Payload
                     /\ ModeAt(fs', dst) = ModeAt(fs, dst)]_vars

\* A directory of source mode 0000 was made with mode 0600, and the file
\* the destination held was rewritten by an entry of mode 0444, its mode
\* still 0600.
C33_Witness ==
    /\ replay.outcome = "nil"
    /\ <<"d1", "a">> \in DOMAIN fs.nodes /\ fs.nodes[<<"d1", "a">>] = DirNode(384)
    /\ DataAt(fs, UntarOld) = Payload /\ ModeAt(fs, UntarOld) = 384
    /\ \E k \in 1..Len(replay.archive) :
          /\ replay.archive[k].typ = "reg" /\ replay.archive[k].mode = 292
          /\ replay.archive[k].name = <<"rootfs", "old">>

\* The path lies inside the destination root.
InsideRoot(p) == Len(p) > Len(UntarRoot) /\ SubSeq(p, 1, Len(UntarRoot)) = UntarRoot

\* C38: whatever the entries of the archive, everything outside the
\* destination root is as it was before the replay: nothing was created
\* there, and no directory or file there was changed.
C38_InsideDestination ==
    /\ \A p \in DOMAIN fs.nodes : p \in DOMAIN UntarFS.nodes \/ InsideRoot(p)
    /\ \A p \in DOMAIN UntarFS.nodes : ~InsideRoot(p) => fs.nodes[p] = UntarFS.nodes[p]

\* ================================================= the OpenSCAP status
\* The scan block of Inspect and the scan-report endpoint of the image
\* server: the scan type, what createOutputDir and scanImage meet, and
\* whether an image server was set up.
StatusInputs ==
    [scanType : {"", "openscap", "clamav"}, dirOK : BOOLEAN, serve : BOOLEAN, scan : ScanInputs]

\* NewInspectorMetadata: Status NotRequested, no error message.
NewInspectorMetadata == [Status |-> "NotRequested", ErrorMessage |-> ""]

\* SetError: Status Error and the message of the error.
SetError(osm, err) == [osm EXCEPT !.Status = "Error", !.ErrorMessage = err]

\* An endpoint that serves the report whenever a scan type is set.
ScanReportAnyStatus(scanType, osm, scanReport) ==
    IF scanType # "" THEN [code |-> 200, body |-> scanReport]
    ELSE [code |-> 404, body |-> "OpenSCAP option was not chosen"]

\* The handler of ScanReportURL.
ScanReportHandler(scanType, osm, scanReport) ==
    IF scanType # "" /\ osm.Status = "Success"
    THEN [code |-> 200, body |-> scanReport]
    ELSE IF osm.Status = "Error"
         THEN [code |-> 500, body |-> <<"OpenSCAP Error: ", osm.ErrorMessage>>]
         ELSE [code |-> 404, body |-> "OpenSCAP option was not chosen"]

InitStatus ==
    /\ CallIdle
    /\ \E in \in StatusInputs :
          call = [fn |-> "Inspect", input |-> in, at |-> "scan",
                  OpenSCAP |-> NewInspectorMetadata, scanReport |-> <<>>,
                  responses |-> <<>>, ret |-> "none"]

\* ScanType is "openscap": the results directory, scanImage, and the status
\* by its error, which is logged and not returned.
StatusScan ==
    /\ call.fn = "Inspect" /\ call.at = "scan"
    /\ call.input.scanType = "openscap" /\ call.input.dirOK
    /\ LET r == ScanImage(call.input.scan)
       IN call' = [call EXCEPT
                      !.OpenSCAP = IF r.err # "nil" THEN SetError(@, r.err)
                                   ELSE [@ EXCEPT !.Status = "Success"],
                      !.scanReport = r.report,
                      !.at = "serve"]
    /\ UNCHANGED fs
    /\ CallFrame

\* createOutputDir of the results directory fails: Inspect returns the error.
StatusScanDirFail ==
    /\ call.fn = "Inspect" /\ call.at = "scan"
    /\ call.input.scanType = "openscap" /\ ~call.input.dirOK
    /\ call' = [call EXCEPT !.at = "returned", !.ret = "ErrScanDir"]
    /\ UNCHANGED fs
    /\ CallFrame

\* Another scan type: the block is passed over.
StatusNoScan ==
    /\ call.fn = "Inspect" /\ call.at = "scan"
    /\ call.input.scanType # "openscap"
    /\ call' = [call EXCEPT !.at = "serve"]
    /\ UNCHANGED fs
    /\ CallFrame

\* A request to ScanReportURL while the image server runs.
StatusRequest ==
    /\ call.fn = "Inspect" /\ call.at = "serve" /\ call.input.serve
    /\ Len(call.responses) < MaxRequests
    /\ call' = [call EXCEPT !.responses =
                   Append(@, ScanReportHandler(call.input.scanType, call.OpenSCAP,
                                               call.scanReport))]
    /\ UNCHANGED fs
    /\ CallFrame

\* http.ListenAndServe returns: Inspect returns its error.
StatusServeReturn ==
    /\ call.fn = "Inspect" /\ call.at = "serve" /\ call.input.serve
    /\ call' = [call EXCEPT !.at = "returned", !.ret = "ErrServe"]
    /\ UNCHANGED fs
    /\ CallFrame

\* No image server: Inspect returns nil.
StatusReturn ==
    /\ call.fn = "Inspect" /\ call.at = "serve" /\ ~call.input.serve
    /\ call' = [call EXCEPT !.at = "returned", !.ret = "nil"]
    /\ UNCHANGED fs
    /\ CallFrame

NextStatus ==
    \/ StatusScan
    \/ StatusScanDirFail
    \/ StatusNoScan
    \/ StatusRequest
    \/ StatusServeReturn
    \/ StatusReturn

\* Inspect from its scan block on, and the requests its server answers.
SpecStatus == InitStatus /\ [][NextStatus]_vars

\* scanImage meets no failure on these inputs.
ScanSucceeds(in) == ~in.scanFails /\ in.results.ok /\ (in.OpenScapHTML => in.html.ok)

\* C34: the status starts at NotRequested and changes once at most, from
\* NotRequested, when the scan type is openscap: to Success when scanImage
\* returned no error, to Error with the message of the error when it
\* returned one; a failed scan is not what Inspect returns; and the
\* scan-report endpoint answers with the report when a scan type is set and
\* the status is Success, with a 500 that carries the message when the
\* status is Error, and with a 404 otherwise.
C34_StatusMachine ==
    /\ [](/\ call.OpenSCAP.Status \in {"NotRequested", "Success", "Error"}
          /\ call.at = "scan" => call.OpenSCAP = NewInspectorMetadata
          /\ call.OpenSCAP.Status = "Success" =>
                /\ call.input.scanType = "openscap" /\ ScanSucceeds(call.input.scan)
                /\ call.scanReport = call.input.scan.results.data
          /\ call.OpenSCAP.Status = "Error" =>
                /\ call.input.scanType = "openscap" /\ ~ScanSucceeds(call.input.scan)
                /\ call.OpenSCAP.ErrorMessage \in {"ErrRun", "ErrReadResults", "ErrReadHTML"}
                /\ call.ret \in {"none", "nil", "ErrServe"}
                /\ (call.at = "returned" /\ ~call.input.serve) => call.ret = "nil"
          /\ (call.OpenSCAP.Status = "NotRequested" /\ call.at # "scan") =>
                call.input.scanType # "openscap" \/ call.ret = "ErrScanDir"
          /\ \A k \in 1..Len(call.responses) :
                LET a == call.responses[k]
                IN /\ a.code = 200 <=>
                         (call.input.scanType # "" /\ call.OpenSCAP.Status = "Success")
                   /\ a.code = 200 => a.body = call.input.scan.results.data
                   /\ a.code = 500 <=> call.OpenSCAP.Status = "Error"
                   /\ a.code = 500 => a.body[2] = call.OpenSCAP.ErrorMessage
                   /\ a.code \in {200, 500, 404})
    /\ [][call'.OpenSCAP # call.OpenSCAP =>
             call.OpenSCAP.Status = "NotRequested" /\ call.at = "scan"]_vars

\* The scan failed, Inspect went on to serve, and the endpoint answered a
\* request with a 500.
C34_Witness ==
    /\ call.fn = "Inspect" /\ call.OpenSCAP.Status = "Error"
    /\ call.input.scan.scanFails
    /\ Len(call.responses) = 1 /\ call.responses[1].code = 500

\* ================================================= the OpenSCAP scanner
\* The distributions in the order reversed.
RHELDistNumbersDescending == <<7, 6, 5>>

\* RHELDistNumbers: the distributions getRHELDist probes.
RHELDistNumbers == <<5, 6, 7>>

\* What one run of oscap for a distribution may give: an error, or an output
\* that reports no definition true, one that reports the definition of
\* another distribution true (3), or one that reports the probed one true.
ProbeOutcomes == {"err", "nothing", "other", "this"}

\* The output of a probe of dist: the definition it reports true, 0 for none.
ProbeOutput(outcome, dist) ==
    IF outcome = "this" THEN dist ELSE IF outcome = "other" THEN 3 ELSE 0

\* strings.Contains(output, CPE + dist + ": true").
ReportsTrue(output, dist) == output = dist

OscapInputs ==
    [mountPath : {"dir", "file", "missing"}, imageNil : BOOLEAN,
     probes : [1..Len(RHELDistNumbers) -> ProbeOutcomes],
     cveOK : BOOLEAN, evalOK : BOOLEAN]

InitOscap ==
    /\ CallIdle
    /\ \E in \in OscapInputs :
          call = [fn |-> "Scan", input |-> in, at |-> "validate", k |-> 1,
                  dist |-> 0, ran |-> <<>>, ret |-> "none"]

\* Scan: the mount path is no directory, or the image is nil.
OscapInvalid ==
    /\ call.fn = "Scan" /\ call.at = "validate"
    /\ call.input.mountPath # "dir" \/ call.input.imageNil
    /\ call' = [call EXCEPT !.at = "returned",
                   !.ret = IF call.input.mountPath # "dir"
                           THEN "is not a directory" ELSE "image cannot be nil"]
    /\ UNCHANGED fs
    /\ CallFrame

\* Scan: both checks pass, s.rhelDist is called.
OscapValid ==
    /\ call.fn = "Scan" /\ call.at = "validate"
    /\ call.input.mountPath = "dir" /\ ~call.input.imageNil
    /\ call' = [call EXCEPT !.at = "getRHELDist"]
    /\ UNCHANGED fs
    /\ CallFrame

\* getRHELDist: one turn of the loop, the probe of RHELDistNumbers[k].
\* The probe fails: getRHELDist returns its error, Scan wraps and returns it.
OscapProbeFail ==
    /\ call.fn = "Scan" /\ call.at = "getRHELDist"
    /\ call.input.probes[call.k] = "err"
    /\ call' = [call EXCEPT !.ran = Append(@, <<"chrootOscap", RHELDistNumbers[call.k]>>),
                   !.at = "returned",
                   !.ret = <<"Unable to get RHEL distribution number", "can't chroot">>]
    /\ UNCHANGED fs
    /\ CallFrame

\* The output reports the probed definition true: its distribution is
\* returned and Scan goes on to s.inputCVE.
OscapProbeTrue ==
    /\ call.fn = "Scan" /\ call.at = "getRHELDist"
    /\ call.input.probes[call.k] # "err"
    /\ ReportsTrue(ProbeOutput(call.input.probes[call.k], RHELDistNumbers[call.k]),
                   RHELDistNumbers[call.k])
    /\ call' = [call EXCEPT !.ran = Append(@, <<"chrootOscap", RHELDistNumbers[call.k]>>),
                   !.dist = RHELDistNumbers[call.k],
                   !.at = "inputCVE"]
    /\ UNCHANGED fs
    /\ CallFrame

\* The output does not: the next distribution, or after the last one the
\* error "could not find RHEL dist", which Scan wraps and returns.
OscapProbeFalse ==
    /\ call.fn = "Scan" /\ call.at = "getRHELDist"
    /\ call.input.probes[call.k] # "err"
    /\ ~ReportsTrue(ProbeOutput(call.input.probes[call.k], RHELDistNumbers[call.k]),
                    RHELDistNumbers[call.k])
    /\ call' = IF call.k < Len(RHELDistNumbers)
               THEN [call EXCEPT !.ran = Append(@, <<"chrootOscap", RHELDistNumbers[call.k]>>),
                        !.k = @ + 1]
               ELSE [call EXCEPT !.ran = Append(@, <<"chrootOscap", RHELDistNumbers[call.k]>>),
                        !.at = "returned",
                        !.ret = <<"Unable to get RHEL distribution number",
                                  "could not find RHEL dist">>]
    /\ UNCHANGED fs
    /\ CallFrame

\* s.inputCVE(rhelDist): the name of the CVE file, or an error Scan wraps
\* and returns.
OscapInputCVE ==
    /\ call.fn = "Scan" /\ call.at = "inputCVE"
    /\ call' = IF call.input.cveOK
               THEN [call EXCEPT !.ran = Append(@, <<"inputCVE", call.dist>>),
                        !.at = "eval"]
               ELSE [call EXCEPT !.ran = Append(@, <<"inputCVE", call.dist>>),
                        !.at = "returned",
                        !.ret = <<"Unable to retreive the CVE file", "No Input CVE">>]
    /\ UNCHANGED fs
    /\ CallFrame

\* s.chrootOscap("xccdf", "eval", ...): its error is what Scan returns.
OscapEval ==
    /\ call.fn = "Scan" /\ call.at = "eval"
    /\ call' = [call EXCEPT !.ran = Append(@, <<"chrootOscap", "xccdf">>),
                   !.at = "returned",
                   !.ret = IF call.input.evalOK THEN "nil" ELSE "can't chroot"]
    /\ UNCHANGED fs
    /\ CallFrame

NextOscap ==
    \/ OscapInvalid
    \/ OscapValid
    \/ OscapProbeFail
    \/ OscapProbeTrue
    \/ OscapProbeFalse
    \/ OscapInputCVE
    \/ OscapEval

\* One call of Scan of the default scanner.
SpecOscap == InitOscap /\ [][NextOscap]_vars

\* The probes that decide: the first, among 5, 6 and 7 in that order, that
\* fails or reports its own definition true; 0 when there is none.
Decisive(in) ==
    LET hits == {j \in 1..3 : in.probes[j] \in {"err", "this"}}
    IN IF hits = {} THEN 0 ELSE CHOOSE j \in hits : \A i \in hits : j <= i

\* What a whole call runs, in order, and what it returns.
WholeScan(in) ==
    LET j == Decisive(in)
        dists == <<5, 6, 7>>
        probed == [i \in 1..(IF j = 0 THEN 3 ELSE j) |-> <<"chrootOscap", dists[i]>>]
    IN IF in.mountPath # "dir" THEN [ran |-> <<>>, ret |-> "is not a directory"]
       ELSE IF in.imageNil THEN [ran |-> <<>>, ret |-> "image cannot be nil"]
       ELSE IF j = 0
            THEN [ran |-> probed,
                  ret |-> <<"Unable to get RHEL distribution number",
                            "could not find RHEL dist">>]
       ELSE IF in.probes[j] = "err"
            THEN [ran |-> probed,
                  ret |-> <<"Unable to get RHEL distribution number", "can't chroot">>]
       ELSE IF ~in.cveOK
            THEN [ran |-> Append(probed, <<"inputCVE", dists[j]>>),
                  ret |-> <<"Unable to retreive the CVE file", "No Input CVE">>]
       ELSE [ran |-> Append(Append(probed, <<"inputCVE", dists[j]>>),
                            <<"chrootOscap", "xccdf">>),
             ret |-> IF in.evalOK THEN "nil" ELSE "can't chroot"]

\* C35: Scan runs nothing when the mount path is no existing directory or
\* the image is nil; otherwise it probes the distributions 5, 6, 7 in that
\* order up to the first probe that fails or reports its own definition
\* true, fetches the CVE input for that distribution, and evaluates, each
\* step only after the one before succeeded, and it returns the error of
\* the first step that failed (a failed probe, or no distribution found,
\* among them) and nil when none did.
C35_ScanInOrder ==
    call.fn = "Scan" =>
        LET w == WholeScan(call.input)
        IN /\ Len(call.ran) <= Len(w.ran)
           /\ call.ran = SubSeq(w.ran, 1, Len(call.ran))
           /\ call.at = "returned" => call.ran = w.ran /\ call.ret = w.ret
           /\ call.at # "returned" => call.ret = "none"

\* The probe of 5 reported nothing, the probe of 6 reported another
\* distribution, the probe of 7 reported 7, and the evaluation was reached.
C35_Witness ==
    /\ call.fn = "Scan" /\ call.at = "returned" /\ call.ret = "nil"
    /\ call.input.probes[1] = "nothing" /\ call.input.probes[2] = "other"
    /\ call.dist = 7 /\ Len(call.ran) = 5

\* ============================================ the channel of an attempt
\* C36: no goroutine of a pull attempt (its PullImage caller, its decoder)
\* sends on the attempt's parsedErrors channel once pullImage's deferred
\* close has closed it.
C36_NoSendAfterClose == ~panicked

\* ========================================= the goroutines of an attempt
\* The steps of pullImage itself.
PullMainStep ==
    \/ InspectNewClient
    \/ InspectNewClientFail
    \/ PullGetAuth
    \/ PullGetAuthFail
    \/ PullStartAttempt
    \/ PullExhausted
    \/ PullRecvFail
    \/ PullRecvOK

\* The pull under the scheduler of the Go runtime, which lets every
\* goroutine that can take a step take one: pullImage, the caller of
\* PullImage (the runtime behind it writes on or returns), and the decoder.
SpecPullFair ==
    /\ Init
    /\ [][NextPull]_vars
    /\ WF_vars(PullMainStep)
    /\ WF_vars(PullerStart)
    /\ WF_vars(PullerWrite \/ PullerReturn)
    /\ WF_vars(PullerSendErr)
    /\ WF_vars(PullerDefer)
    /\ WF_vars(DecRead)
    /\ WF_vars(DecEOF)
    /\ WF_vars(DecProcess)

\* C37: every goroutine started for a pull attempt, the caller of PullImage
\* and the decoder, has terminated from some moment on (a run that a send on
\* a closed channel has brought down set aside), also when the decoder left
\* its loop on an Error message or on malformed JSON while the runtime still
\* writes into the pipe.
C37_GoroutinesTerminate ==
    <>[](panicked \/ \A k \in 1..Len(att) :
                        att[k].puller = "done" /\ att[k].decoder = "done")

\* ============================================ the responses of clamd
\* A byte is "NUL" or a piece of text. A reply of clamd in a session is
\* "<id>: fd[<n>]: <text>" and a NUL; ClamdReplies(id) are such replies and
\* two that are not of that form.
ClamdReplies(id) ==
    {<<id, ": ", "fd", ": ", "OK">>,
     <<id, ": ", "fd", ": ", "FOUND">>,
     <<"fd", ": ", "fd", ": ", "OK">>,
     <<"OK">>}

\* bytes.IndexByte(buf, c): the index, from 0, of the first c; -1 for none.
IndexByte(buf, c) ==
    LET at == {i \in 1..Len(buf) : buf[i] = c}
    IN IF at = {} THEN -1 ELSE (CHOOSE i \in at : \A j \in at : i <= j) - 1

\* The decimal text of the request ids.
Decimal == <<"1", "2", "3">>

\* strconv.ParseInt of the field before the first ": ".
ParseInt(field) ==
    IF \E n \in 1..Len(Decimal) : field = <<Decimal[n]>>
    THEN [n |-> CHOOSE n \in 1..Len(Decimal) : field = <<Decimal[n]>>, err |-> FALSE]
    ELSE [n |-> 0, err |-> TRUE]

\* parseClamdResponse: strings.SplitN(response, ": ", 3), the request id of
\* the first part, the third part as the result.
ParseClamdResponse(response) ==
    LET i == IndexByte(response, ": ")
        rest == SubSeq(response, i + 2, Len(response))
        j == IndexByte(rest, ": ")
    IN IF i < 0 \/ j < 0
       THEN [requestID |-> 0, result |-> <<>>, err |-> "unexpected response from clamd"]
       ELSE IF ParseInt(SubSeq(response, 1, i)).err
            THEN [requestID |-> 0, result |-> <<>>, err |-> "strconv.ParseInt failed"]
            ELSE [requestID |-> ParseInt(SubSeq(response, 1, i)).n,
                  result |-> SubSeq(rest, j + 2, Len(rest)), err |-> ""]

\* IsNegative: the result is "OK".
IsNegative(fileResult) == fileResult.Result = <<"OK">>

\* handleResponse: the file name recorded under the request id, the count
\* of the responses that carry an id, and the result, appended unless
\* negatives are ignored and it is one.  parsed is the log line of 214.
HandleResponse(s, response) ==
    LET p == ParseClamdResponse(response)
        known == p.requestID \in DOMAIN s.requestIDToFilename
        path == IF p.requestID = 0 THEN "<unknown>"
                ELSE IF known THEN s.requestIDToFilename[p.requestID] ELSE ""
        errors == (IF p.err # "" THEN <<p.err>> ELSE <<>>)
                  \o (IF p.requestID # 0 /\ ~known
                      THEN <<"request not recognized">> ELSE <<>>)
        result == [Filename |-> path, Result |-> p.result, Errors |-> errors]
    IN [s EXCEPT !.parsed = Append(@, response),
                 !.numResponsesReceived = IF p.requestID # 0 THEN @ + 1 ELSE @,
                 !.Files = IF ~s.ignoreNegatives \/ ~IsNegative(result)
                           THEN Append(@, result) ELSE @]

\* The loop of handleResponses.
RECURSIVE HandleResponsesLoop(_, _)
HandleResponsesLoop(s, buf) ==
    LET end == IndexByte(buf, "NUL")
    IN IF end <= 0
       THEN [s EXCEPT !.partialResponse = buf]
       ELSE HandleResponsesLoop(HandleResponse(s, SubSeq(buf, 1, end)),
                                SubSeq(buf, end + 2, Len(buf)))

\* A handleResponses that starts from the buffer just read.
HandleResponsesOfBuffer(s, buf) ==
    HandleResponsesLoop([s EXCEPT !.partialResponse = <<>>], buf)

\* handleResponses: the partial response kept from the read before goes in
\* front of the buffer.
HandleResponses(s, buf) ==
    HandleResponsesLoop([s EXCEPT !.partialResponse = <<>>], s.partialResponse \o buf)

ClamdFiles == <<"f1", "f2", "f3">>

InitClamd ==
    /\ BaseIdle
    /\ fs = InitialFS
    /\ handed = NewDefaultImageInspector(<<>>, NoServeOpts)
    /\ replay = "idle" /\ dl = "idle" /\ call = "idle" /\ srv = "idle"
    /\ \E n \in 0..MaxFiles, ign \in BOOLEAN :
          ses = [ignoreNegatives |-> ign, toWalk |-> SubSeq(ClamdFiles, 1, n),
                 caller |-> "scanFile", numFilesSubmitted |-> 0,
                 numResponsesReceived |-> 0, requestIDToFilename |-> <<>>,
                 partialResponse |-> <<>>, Files |-> <<>>, parsed |-> <<>>,
                 written |-> <<>>, pending |-> {}, wire |-> <<>>, read |-> <<>>,
                 cuts |-> {}]

\* scanFile: conn.Write hands the file to clamd, which numbers the requests
\* of a session from 1.
ClamdScanFileWrite ==
    /\ ses.caller = "scanFile" /\ ses.toWalk # <<>>
    /\ ses' = [ses EXCEPT !.written = Append(@, Head(ses.toWalk)),
                          !.pending = @ \cup {Len(ses.written) + 1},
                          !.caller = "count"]
    /\ SesFrame

\* scanFile: os.Open or conn.Write fails; walkFn logs it and goes on.
ClamdScanFileFail ==
    /\ ses.caller = "scanFile" /\ ses.toWalk # <<>>
    /\ ses' = [ses EXCEPT !.toWalk = Tail(@)]
    /\ SesFrame

\* scanFile: ses.numFilesSubmitted++
ClamdScanFileCount ==
    /\ ses.caller = "count"
    /\ ses' = [ses EXCEPT !.numFilesSubmitted = @ + 1, !.caller = "record"]
    /\ SesFrame

\* scanFile: requestIDToFilename[numFilesSubmitted] = path, under the mutex.
ClamdScanFileRecord ==
    /\ ses.caller = "record"
    /\ ses' = [ses EXCEPT !.requestIDToFilename =
                              (ses.numFilesSubmitted :> Head(ses.toWalk)) @@ @,
                          !.toWalk = Tail(@),
                          !.caller = "scanFile"]
    /\ SesFrame

\* clamd answers one of the requests it has.
ClamdAnswer ==
    /\ \E id \in ses.pending :
          \E r \in ClamdReplies(Decimal[id]) :
             ses' = [ses EXCEPT !.pending = @ \ {id},
                                !.wire = @ \o r \o <<"NUL">>]
    /\ SesFrame

\* pollResponses: conn.Read returns some of the bytes clamd has written,
\* and handleResponses takes them.  read is all that was read, cuts the
\* places in it where a read ended.
ClamdPollRead ==
    /\ ses.wire # <<>>
    /\ \E k \in 1..Len(ses.wire) :
          ses' = [HandleResponses(ses, SubSeq(ses.wire, 1, k)) EXCEPT
                     !.wire = SubSeq(ses.wire, k + 1, Len(ses.wire)),
                     !.read = ses.read \o SubSeq(ses.wire, 1, k),
                     !.cuts = @ \cup {Len(ses.read) + k}]
    /\ SesFrame

NextClamd ==
    \/ ClamdScanFileWrite
    \/ ClamdScanFileFail
    \/ ClamdScanFileCount
    \/ ClamdScanFileRecord
    \/ ClamdAnswer
    \/ ClamdPollRead

\* The submissions of a session and the reading of clamd's responses.
SpecClamd == InitClamd /\ [][NextClamd]_vars

\* The responses that are complete in a sequence of bytes, in order, and
\* what follows the last NUL.
RECURSIVE CompleteIn(_, _, _)
CompleteIn(bytes, cur, done) ==
    IF bytes = <<>> THEN [complete |-> done, tail |-> cur]
    ELSE IF Head(bytes) = "NUL" THEN CompleteIn(Tail(bytes), <<>>, Append(done, cur))
    ELSE CompleteIn(Tail(bytes), Append(cur, Head(bytes)), done)

\* The results kept for a sequence of responses.
RECURSIVE KeptResults(_, _)
KeptResults(responses, ign) ==
    IF responses = <<>> THEN <<>>
    ELSE LET r == ParseClamdResponse(Head(responses)).result
         IN (IF ign /\ r = <<"OK">> THEN <<>> ELSE <<r>>)
            \o KeptResults(Tail(responses), ign)

\* C39: a response that carries the request id of a file handed to clamd
\* is attributed to the name of that file, and no more responses are
\* counted than files were counted as submitted.
C39_AttributedToTheFile ==
    /\ ses.numResponsesReceived <= ses.numFilesSubmitted
    /\ ~ses.ignoreNegatives =>
          \A i \in 1..Len(ses.Files) :
             LET id == ParseClamdResponse(ses.parsed[i]).requestID
             IN id \in 1..Len(ses.written) => ses.Files[i].Filename = ses.written[id]

\* C40: however the reads cut the stream, the responses handed to
\* handleResponse are the complete responses of the bytes read so far, each
\* once and in the order of the stream; the bytes after the last NUL are
\* kept as the partial response; and the results are those of the handled
\* responses, in order, without the "OK" ones when negatives are ignored.
C40_ResponsesReassembled ==
    /\ ses.parsed = CompleteIn(ses.read, <<>>, <<>>).complete
    /\ ses.partialResponse = CompleteIn(ses.read, <<>>, <<>>).tail
    /\ [i \in 1..Len(ses.Files) |-> ses.Files[i].Result]
          = KeptResults(ses.parsed, ses.ignoreNegatives)

\* Two responses were read in pieces, one read ending inside the first
\* response and a later one inside the second; both have been handled, and
\* the "OK" one is left out of the results.
C40_Witness ==
    /\ ses.ignoreNegatives
    /\ Len(ses.parsed) = 2 /\ ses.wire = <<>> /\ ses.partialResponse = <<>>
    /\ \E c \in ses.cuts : c < Len(ses.parsed[1])
    /\ \E c \in ses.cuts : c > Len(ses.parsed[1]) + 1 /\ c < Len(ses.read) - 1
    /\ Len(ses.Files) = 1 /\ ses.Files[1].Result = <<"FOUND">>
    /\ ParseClamdResponse(ses.parsed[1]).result = <<"OK">>

====
